---- MODULE Spec2Model ----
(***************************************************************************)
(* Fargo-Ledger: statement import with content-addressed identities, the   *)
(* vendor-rule matcher, and the suggestion approval workflow.              *)
(*                                                                         *)
(* Conventions of the model                                                *)
(*  - Text that the code inspects character by character (descriptions,    *)
(*    patterns, the string that is hashed) is a sequence of one-character  *)
(*    strings; text that is only compared (vendor names, categories) is a  *)
(*    TLA+ string.                                                         *)
(*  - Python's None is the string None_; a missing/None JSON payload is    *)
(*    the empty function <<>>; a dict is a function from keys to values.   *)
(*  - Amounts read from a file are integers in thousandths of a dollar;    *)
(*    stored amounts (Numeric(10,2)) are integers in cents.                *)
(*  - Confidence is an integer in units of 1/10000 (round(x, 4)).          *)
(*  - SHA-256 is modelled as injective: the digest of a string is the      *)
(*    string itself.                                                       *)
(*  - A handler is an operator from the tables and the request to the      *)
(*    tables it commits and the response; the action applies it.  What a   *)
(*    claim says of a call is stated of that operator at every reachable   *)
(*    state and every request.                                             *)
(*  - Columns no modelled decision reads (source_file, raw_data, notes,    *)
(*    tags, tax_deductible, is_transfer, is_cleaned, the contact columns   *)
(*    of vendor_info, created_at) are left out.                            *)
(***************************************************************************)
EXTENDS Integers, Sequences, FiniteSets, TLC

VARIABLES
    transactions,   \* table transactions: id -> row
    vendor_info,    \* table vendor_info: id -> row
    suggestions,    \* table import_suggestions: sequence, id = index
    response,       \* what the last handler call returned
    request         \* the last handler call

vars == <<transactions, vendor_info, suggestions, response, request>>

-----------------------------------------------------------------------------
(* Bounds of the model *)

MaxRows == 2          \* rows per imported file

-----------------------------------------------------------------------------
(* Python values *)

None_ == "<None>"

\* Python truthiness of an Optional[str]
Truthy(v) == v /= None_ /\ v /= ""

\* a or b
Or(a, b) == IF Truthy(a) THEN a ELSE b

\* dict.get(k, d) on a payload
Get(r, k, d) == IF k \in DOMAIN r THEN r[k] ELSE d

\* bool(dict): None and {} are both falsy
HasPayload(r) == DOMAIN r /= {}

-----------------------------------------------------------------------------
(* Character strings *)

ToUpper ==
    ("a" :> "A") @@ ("b" :> "B") @@ ("c" :> "C") @@ ("d" :> "D") @@
    ("e" :> "E") @@ ("f" :> "F") @@ ("g" :> "G") @@ ("h" :> "H") @@
    ("i" :> "I") @@ ("j" :> "J") @@ ("k" :> "K") @@ ("l" :> "L") @@
    ("m" :> "M") @@ ("n" :> "N") @@ ("o" :> "O") @@ ("p" :> "P") @@
    ("q" :> "Q") @@ ("r" :> "R") @@ ("s" :> "S") @@ ("t" :> "T") @@
    ("u" :> "U") @@ ("v" :> "V") @@ ("w" :> "W") @@ ("x" :> "X") @@
    ("y" :> "Y") @@ ("z" :> "Z")

\* str.upper()
Upper(s) == [i \in 1..Len(s) |-> IF s[i] \in DOMAIN ToUpper THEN ToUpper[s[i]] ELSE s[i]]

\* str.strip(): drop leading and trailing blanks
RECURSIVE LStrip(_)
LStrip(s) == IF s /= <<>> /\ Head(s) = " " THEN LStrip(Tail(s)) ELSE s

RECURSIVE RStrip(_)
RStrip(s) == IF s /= <<>> /\ s[Len(s)] = " " THEN RStrip(SubSeq(s, 1, Len(s) - 1)) ELSE s

Strip(s) == RStrip(LStrip(s))

\* p in d (substring containment)
Contains(d, p) == \E i \in 1..(Len(d) - Len(p) + 1) : SubSeq(d, i, i + Len(p) - 1) = p

-----------------------------------------------------------------------------
(* Amount formatting and the identity hash *)

DigitChar == <<"0", "1", "2", "3", "4", "5", "6", "7", "8", "9">>

\* decimal digits of a natural number
RECURSIVE Digits(_)
Digits(n) == IF n < 10 THEN <<DigitChar[n + 1]>>
             ELSE Digits(n \div 10) \o <<DigitChar[(n % 10) + 1]>>

Abs(x) == IF x < 0 THEN -x ELSE x

\* |amount| in thousandths rounded to cents (the inputs hold no exact half cent)
RoundCentsAbs(m) == (Abs(m) + 5) \div 10

\* f"{float(amount):.2f}": the sign is kept even when the cents round to zero
FormatAmount(m) ==
    LET c == RoundCentsAbs(m)
    IN  (IF m < 0 THEN <<"-">> ELSE <<>>)
        \o Digits(c \div 100) \o <<".">>
        \o <<DigitChar[((c % 100) \div 10) + 1], DigitChar[(c % 10) + 1]>>

\* the value kept in the Numeric(10,2) column, in cents
StoredAmount(m) == IF m < 0 THEN -RoundCentsAbs(m) ELSE RoundCentsAbs(m)

generate_base_hash(date_str, desc, amount) ==
    date_str \o desc \o FormatAmount(amount)

-----------------------------------------------------------------------------
(* Parsing of the cells of a file row *)

\* pd.to_datetime(cell).date() followed by str(): several spellings of a day
\* parse to the same ISO date; text that is no date raises
ParsedDates ==
    ("01/05/2024" :> "2024-01-05") @@ ("1/5/2024" :> "2024-01-05")

DateParses(cell) == cell \in DOMAIN ParsedDates

\* str(t_date): a fixed-width token, so one element of the hashed string
DateStr(cell) == <<ParsedDates[cell]>>

\* float(cell): the amount cell is <<m>> when it reads as the number m
\* (in thousandths), and <<>> when float() raises
AmountParses(cell) == Len(cell) = 1

AmountOf(cell) == cell[1]

\* the try block of the row loop succeeds
RowParses(row) == DateParses(row.date) /\ AmountParses(row.amount)

-----------------------------------------------------------------------------
(* The matcher *)

_CONFIDENCE_ASSIGN_THRESHOLD == 7000

\* some pattern of the rule occurs in the upper-cased description
PatternHits(desc_upper, pattern) ==
    pattern /= <<>> /\ Contains(desc_upper, Upper(pattern))

RuleMatches(desc_upper, rules) ==
    LET ps == Get(rules, "patterns", <<>>)
    IN  \E i \in 1..Len(ps) : PatternHits(desc_upper, ps[i])

\* a faulty variant: the first candidate that matches is returned
find_matching_vendor_FirstHit(description, candidates) ==
    LET desc_upper == Upper(description)
        hit == {k \in 1..Len(candidates) : RuleMatches(desc_upper, candidates[k].rules)}
    IN  IF hit = {} THEN 0
        ELSE candidates[CHOOSE k \in hit : \A j \in hit : k <= j].id

\* candidates: a sequence of vendor_info rows, in the order the query gave
\* them.  The stable sort on -assigned_count puts first the earliest
\* candidate among those with the largest count.  0 stands for None.
find_matching_vendor(description, candidates) ==
    LET desc_upper == Upper(description)
        count(k) == Get(candidates[k].rules, "assigned_count", 0)
        hit == {k \in 1..Len(candidates) : RuleMatches(desc_upper, candidates[k].rules)}
    IN  IF hit = {} THEN 0
        ELSE LET best == CHOOSE k \in hit :
                            /\ \A j \in hit : count(j) <= count(k)
                            /\ \A j \in hit : count(j) = count(k) => k <= j
             IN  candidates[best].id

\* a faulty variant: the enabled flag is not looked at
Eligible_AnyFlag(vi) ==
    /\ HasPayload(vi.rules)
    /\ Get(vi.rules, "confidence", 10000) >= _CONFIDENCE_ASSIGN_THRESHOLD
    /\ Get(vi.rules, "patterns", <<>>) /= <<>>

\* the filter that builds auto_candidates
Eligible(vi) ==
    /\ HasPayload(vi.rules)
    /\ Get(vi.rules, "enabled", TRUE)
    /\ Get(vi.rules, "confidence", 10000) >= _CONFIDENCE_ASSIGN_THRESHOLD
    /\ Get(vi.rules, "patterns", <<>>) /= <<>>

\* first pattern of the rule that occurs in the description, "" if none
RECURSIVE FirstHit(_, _)
FirstHit(desc_upper, ps) ==
    IF ps = <<>> THEN <<>>
    ELSE IF PatternHits(desc_upper, Head(ps)) THEN Head(ps)
    ELSE FirstHit(desc_upper, Tail(ps))

\* category / project a rule implies for an amount (thousandths)
SignKey(amount) == IF amount >= 0 THEN "income" ELSE "expense"

SuggestedField(rules, amount, field, default_key) ==
    LET by_sign == Get(rules, "by_sign", <<>>)
    IN  IF HasPayload(by_sign)
        THEN Or(Get(Get(by_sign, SignKey(amount), <<>>), field, None_),
                Get(rules, default_key, None_))
        ELSE Get(rules, default_key, None_)

-----------------------------------------------------------------------------
(* import_csv_content: the row loop *)

\* a faulty variant: every row is taken for the first of its base hash
CountOf_Zero(counts, base) == 0

\* defaultdict(int) lookup
CountOf(counts, base) == IF base \in DOMAIN counts THEN counts[base] ELSE 0

\* a faulty variant: the occurrence index is left out of the identity
TxId_BaseOnly(base_hash, occurrence) == <<base_hash, 0>>

\* tx_id = f"{base_hash}-{occurrence}": a hex digest holds no "-", so the
\* pair determines the string and the string the pair
TxId(base_hash, occurrence) == <<base_hash, occurrence>>

\* a faulty variant: the row is inserted as if already categorized
NewTransaction_Flagged(tx_id, account_id, date_cell, desc, amount) ==
    [ id               |-> tx_id,
      account_id       |-> account_id,
      transaction_date |-> ParsedDates[date_cell],
      description      |-> desc,
      amount           |-> StoredAmount(amount),
      vendor           |-> None_,
      category         |-> None_,
      project          |-> None_,
      auto_categorized |-> TRUE ]

\* the Transaction(...) the loop adds: labels NULL, flags at their defaults
NewTransaction(tx_id, account_id, date_cell, desc, amount) ==
    [ id               |-> tx_id,
      account_id       |-> account_id,
      transaction_date |-> ParsedDates[date_cell],
      description      |-> desc,
      amount           |-> StoredAmount(amount),
      vendor           |-> None_,
      category         |-> None_,
      project          |-> None_,
      auto_categorized |-> FALSE ]

\* a faulty variant: a vendor's group is never found again
GroupIndex_Absent(smap, vi_id) == 0

\* index of the group of vendor vi_id in suggestions_map, 0 if absent
GroupIndex(smap, vi_id) ==
    IF \E k \in 1..Len(smap) : smap[k].vi.id = vi_id
    THEN CHOOSE k \in 1..Len(smap) : smap[k].vi.id = vi_id
    ELSE 0

\* the entry created when a vendor is matched for the first time in a batch
NewGroup(matched_vi, desc, amount) ==
    [ vi       |-> matched_vi,
      tx_ids   |-> <<>>,
      pattern  |-> FirstHit(Upper(desc), Get(matched_vi.rules, "patterns", <<>>)),
      category |-> SuggestedField(matched_vi.rules, amount, "category", "default_category"),
      project  |-> SuggestedField(matched_vi.rules, amount, "project", "default_project") ]

\* suggestions_map after a new row with identity tx_id matched matched_vi
Accumulate(smap, matched_vi, tx_id, desc, amount) ==
    LET k     == GroupIndex(smap, matched_vi.id)
        smap1 == IF k = 0 THEN Append(smap, NewGroup(matched_vi, desc, amount)) ELSE smap
        k1    == IF k = 0 THEN Len(smap1) ELSE k
    IN  [smap1 EXCEPT ![k1].tx_ids = Append(@, tx_id)]

\* what the loop has built up: counters, file_hash_counts, the rows added
\* to the session, suggestions_map (in insertion order)
EmptyLoop ==
    [ imported |-> 0, skipped |-> 0, file_hash_counts |-> <<>>,
      added |-> <<>>, suggestions_map |-> <<>> ]

\* a faulty variant: the existence test never finds a row
IdExists_Never(db, tx_id) == FALSE

\* a faulty variant: the existence test looks for the base hash alone
IdExists_ByBase(db, tx_id) == \E id \in DOMAIN db : id[1] = tx_id[1]

\* a faulty variant: only the rows of the first account are looked at
IdExists_FirstAccount(db, tx_id) == tx_id \in DOMAIN db /\ db[tx_id].account_id = 1

\* the existence test reads the table; with autoflush off the rows added to
\* the session in this batch are not in it
IdExists(db, tx_id) == tx_id \in DOMAIN db

\* a faulty variant: a row that does not parse is passed over uncounted
RowStep_Uncounted(st, row, db, account_id, auto_candidates) ==
    IF ~RowParses(row)
    THEN st
    ELSE
      LET desc       == Strip(row.description)
          amount     == AmountOf(row.amount)
          base_hash  == generate_base_hash(DateStr(row.date), desc, amount)
          occurrence == CountOf(st.file_hash_counts, base_hash)
          counts1    == (base_hash :> (occurrence + 1)) @@ st.file_hash_counts
          tx_id      == TxId(base_hash, occurrence)
          st1        == [st EXCEPT !.file_hash_counts = counts1]
      IN  IF IdExists(db, tx_id)
          THEN [st1 EXCEPT !.skipped = @ + 1]
          ELSE
            LET matched == find_matching_vendor(desc, auto_candidates)
                st2 == [st1 EXCEPT
                          !.added = Append(@, NewTransaction(tx_id, account_id,
                                                             row.date, desc, amount)),
                          !.imported = @ + 1]
            IN  IF matched = 0 THEN st2
                ELSE LET matched_vi == CHOOSE k \in 1..Len(auto_candidates) :
                                           auto_candidates[k].id = matched
                     IN  [st2 EXCEPT !.suggestions_map =
                             Accumulate(@, auto_candidates[matched_vi], tx_id, desc, amount)]

\* one iteration of "for _, row in df.iterrows()"
RowStep(st, row, db, account_id, auto_candidates) ==
    IF ~RowParses(row)
    THEN [st EXCEPT !.skipped = @ + 1]
    ELSE
      LET desc       == Strip(row.description)
          amount     == AmountOf(row.amount)
          base_hash  == generate_base_hash(DateStr(row.date), desc, amount)
          occurrence == CountOf(st.file_hash_counts, base_hash)
          counts1    == (base_hash :> (occurrence + 1)) @@ st.file_hash_counts
          tx_id      == TxId(base_hash, occurrence)
          st1        == [st EXCEPT !.file_hash_counts = counts1]
      IN  IF IdExists(db, tx_id)
          THEN [st1 EXCEPT !.skipped = @ + 1]
          ELSE
            LET matched == find_matching_vendor(desc, auto_candidates)
                st2 == [st1 EXCEPT
                          !.added = Append(@, NewTransaction(tx_id, account_id,
                                                             row.date, desc, amount)),
                          !.imported = @ + 1]
            IN  IF matched = 0 THEN st2
                ELSE LET matched_vi == CHOOSE k \in 1..Len(auto_candidates) :
                                           auto_candidates[k].id = matched
                     IN  [st2 EXCEPT !.suggestions_map =
                             Accumulate(@, auto_candidates[matched_vi], tx_id, desc, amount)]

RECURSIVE RowLoop(_, _, _, _, _)
RowLoop(st, rows, db, account_id, auto_candidates) ==
    IF rows = <<>> THEN st
    ELSE RowLoop(RowStep(st, Head(rows), db, account_id, auto_candidates),
                 Tail(rows), db, account_id, auto_candidates)

\* a faulty variant: every batch is filed under the first account
NewSuggestion_FirstAccount(account_id, sg) ==
    [ account_id         |-> 1,
      vendor_info_id     |-> sg.vi.id,
      suggested_vendor   |-> sg.vi.vendor_name,
      suggested_category |-> sg.category,
      suggested_project  |-> sg.project,
      pattern_matched    |-> sg.pattern,
      transaction_ids    |-> sg.tx_ids,
      status             |-> "pending" ]

\* the ImportSuggestion row persisted for one group
NewSuggestion(account_id, sg) ==
    [ account_id         |-> account_id,
      vendor_info_id     |-> sg.vi.id,
      suggested_vendor   |-> sg.vi.vendor_name,
      suggested_category |-> sg.category,
      suggested_project  |-> sg.project,
      pattern_matched    |-> sg.pattern,
      transaction_ids    |-> sg.tx_ids,
      status             |-> "pending" ]

-----------------------------------------------------------------------------
(* The data the model runs on *)

Accounts == {1, 2}

\* the vendors created (POST /vendor-info) before the behaviours start;
\* a vendor is created without rules
InitialVendors ==
    (1 :> [id |-> 1, account_id |-> 1, vendor_name |-> "Acme",   rules |-> <<>>]) @@
    (2 :> [id |-> 2, account_id |-> 1, vendor_name |-> "Gas Co", rules |-> <<>>]) @@
    (3 :> [id |-> 3, account_id |-> 2, vendor_name |-> "Acme",   rules |-> <<>>])

PatAcme == <<"A", "C", "M", "E">>
PatGas  == <<"g", "a", "s">>

\* round(1.0 - corrected / max(assigned, 1), 4) in units of 1/10000,
\* rounding the exact quotient half to even
Max(a, b) == IF a >= b THEN a ELSE b

\* a faulty variant: the quotient is cut off after four decimals
Confidence_Truncated(corrected, assigned) ==
    (10000 * (Max(assigned, 1) - corrected)) \div Max(assigned, 1)

Confidence(corrected, assigned) ==
    LET d  == Max(assigned, 1)
        n  == 10000 * (d - corrected)          \* the value is n / d
        q  == n \div d                         \* floor
        r2 == 2 * (n - q * d)
    IN  IF r2 > d \/ (r2 = d /\ q % 2 = 1) THEN q + 1 ELSE q

RulePayload(patterns, category, project, by_sign, enabled, assigned, corrected) ==
    [ patterns         |-> patterns,
      default_category |-> category,
      default_project  |-> project,
      by_sign          |-> by_sign,
      enabled          |-> enabled,
      assigned_count   |-> assigned,
      corrected_count  |-> corrected,
      confidence       |-> Confidence(corrected, assigned) ]

BySign(ic, ip, ec, ep) ==
    [ income  |-> [category |-> ic, project |-> ip],
      expense |-> [category |-> ec, project |-> ep] ]

\* rule payloads a user may PUT on a vendor
RuleChoices(vid) ==
    CASE vid = 1 -> { RulePayload(<<PatAcme>>, "Food", None_,
                                  BySign("Refund", None_, "Food", None_), TRUE, 2, 0),
                      RulePayload(<<PatAcme>>, None_, None_, <<>>, TRUE, 2, 0) }
      [] vid = 2 -> { RulePayload(<<PatGas>>, "Fuel", "Car", <<>>, TRUE, 2, 0) }
      [] OTHER   -> { RulePayload(<<PatAcme>>, "Food", None_, <<>>, TRUE, 1, 0) }

\* the rows a statement file may hold: (date cell, amount cell, description)
RowAcmeGas ==
    [ date |-> "01/05/2024", amount |-> <<-4000>>,
      description |-> <<"A", "c", "m", "e", " ", "G", "a", "s">> ]

\* the same purchase spelled differently: it has the base hash of RowAcmeGas
RowAcmeGasAlt ==
    [ date |-> "1/5/2024", amount |-> <<-3999>>,
      description |-> <<"A", "c", "m", "e", " ", "G", "a", "s", " ">> ]

RowAcmeRefund ==
    [ date |-> "01/05/2024", amount |-> <<2500>>,
      description |-> <<"A", "C", "M", "E">> ]

\* a row whose date cell is no date
RowBadDate ==
    [ date |-> "n/a", amount |-> <<-4000>>,
      description |-> <<"A", "C", "M", "E">> ]

Rows == {RowAcmeGas, RowAcmeGasAlt, RowAcmeRefund, RowBadDate}

\* file contents: the data frame read_csv returns, 1..MaxRows rows
Files == UNION {[1..n -> Rows] : n \in 1..MaxRows}

\* the orders in which a query without ORDER BY may return a set of rows
Orders(S) ==
    {o \in [1..Cardinality(S) -> S] : \A i, j \in 1..Cardinality(S) : i /= j => o[i] /= o[j]}

\* the tables as one value
DB == [ transactions |-> transactions, vendor_info |-> vendor_info,
        suggestions |-> suggestions ]

\* a handler's outcome: the tables it commits and its response
Outcome(txs, vis, sgs, resp) ==
    [ transactions |-> txs, vendor_info |-> vis, suggestions |-> sgs, response |-> resp ]

Commit(out, req) ==
    /\ request' = req
    /\ transactions' = out.transactions
    /\ vendor_info' = out.vendor_info
    /\ suggestions' = out.suggestions
    /\ response' = out.response

-----------------------------------------------------------------------------
(* import_csv_content *)

VendorsOf(vis, account_id) == {v \in DOMAIN vis : vis[v].account_id = account_id}

\* auto_candidates, given the order in which the query returned the rows
AutoCandidates(vis, order) ==
    LET rows == [k \in 1..Len(order) |-> vis[order[k]]]
    IN  SelectSeq(rows, Eligible)

\* the table after the rows added to the session are committed
InsertAll(txs, added) ==
    [id \in DOMAIN txs \cup {added[k].id : k \in 1..Len(added)} |->
        IF id \in DOMAIN txs THEN txs[id]
        ELSE added[CHOOSE k \in 1..Len(added) : added[k].id = id]]

import_csv_content(db, content, account_id, order) ==
    LET st == RowLoop(EmptyLoop, content, db.transactions, account_id,
                      AutoCandidates(db.vendor_info, order))
    IN  Outcome(InsertAll(db.transactions, st.added),
                db.vendor_info,
                db.suggestions \o
                    [k \in 1..Len(st.suggestions_map) |->
                        NewSuggestion(account_id, st.suggestions_map[k])],
                [ op |-> "import", status |-> 200,
                  imported |-> st.imported, skipped |-> st.skipped,
                  suggestions_created |-> Len(st.suggestions_map) ])

-----------------------------------------------------------------------------
(* POST /suggestions/{id}/approve and /dismiss *)

\* SuggestionApproveBody; a request without body has every field None
NoBody == [vendor |-> None_, category |-> None_, project |-> None_]

\* a faulty variant: the approval writes the vendor and the flag only
ApplyLabels_VendorOnly(tx, vendor, category, project) ==
    [tx EXCEPT !.vendor = IF Truthy(vendor) THEN vendor ELSE @,
               !.auto_categorized = TRUE]

\* the UPDATE the approval issues: a label is written only when its value is
\* truthy, auto_categorized always
ApplyLabels(tx, vendor, category, project) ==
    [tx EXCEPT !.vendor   = IF Truthy(vendor)   THEN vendor   ELSE @,
               !.category = IF Truthy(category) THEN category ELSE @,
               !.project  = IF Truthy(project)  THEN project  ELSE @,
               !.auto_categorized = TRUE]

InSeq(x, seq) == \E k \in 1..Len(seq) : seq[k] = x

\* a faulty variant: an approval counts as one assignment
BumpAssigned_One(rules, n) ==
    [k \in DOMAIN rules \cup {"assigned_count"} |->
        IF k = "assigned_count" THEN Get(rules, "assigned_count", 0) + 1 ELSE rules[k]]

\* a faulty variant: an approval switches the rule on again
BumpAssigned_Reenabling(rules, n) ==
    [k \in DOMAIN rules \cup {"assigned_count", "enabled"} |->
        IF k = "assigned_count" THEN Get(rules, "assigned_count", 0) + n
        ELSE IF k = "enabled" THEN TRUE ELSE rules[k]]

\* rules["assigned_count"] = rules.get("assigned_count", 0) + len(tx_ids)
BumpAssigned(rules, n) ==
    [k \in DOMAIN rules \cup {"assigned_count"} |->
        IF k = "assigned_count" THEN Get(rules, "assigned_count", 0) + n ELSE rules[k]]

\* vendor_info after the vendor of suggestion s was credited with its rows
CreditVendor(vis, s) ==
    IF s.vendor_info_id \in DOMAIN vis /\ HasPayload(vis[s.vendor_info_id].rules)
    THEN [vis EXCEPT ![s.vendor_info_id].rules = BumpAssigned(@, Len(s.transaction_ids))]
    ELSE vis

\* transactions after the labels of suggestion s were written to its rows
LabelRows(txs, s, vendor, category, project) ==
    [id \in DOMAIN txs |->
        IF InSeq(id, s.transaction_ids)
        THEN ApplyLabels(txs[id], vendor, category, project)
        ELSE txs[id]]

\* the handler's answer when it changes nothing
Rejected(db, op, status) ==
    Outcome(db.transactions, db.vendor_info, db.suggestions,
            [op |-> op, status |-> status])

approve_suggestion(db, suggestion_id, body) ==
    IF suggestion_id \notin DOMAIN db.suggestions
    THEN Rejected(db, "approve", 404)
    ELSE IF db.suggestions[suggestion_id].status /= "pending"
    THEN Rejected(db, "approve", 400)
    ELSE
      LET s        == db.suggestions[suggestion_id]
          vendor   == Or(body.vendor,   s.suggested_vendor)
          category == Or(body.category, s.suggested_category)
          project  == Or(body.project,  s.suggested_project)
      IN  Outcome(LabelRows(db.transactions, s, vendor, category, project),
                  CreditVendor(db.vendor_info, s),
                  [db.suggestions EXCEPT ![suggestion_id].status = "approved"],
                  [op |-> "approve", status |-> 200])

\* a faulty variant: a batch is dismissed whatever its status
dismiss_suggestion_Unguarded(db, suggestion_id) ==
    IF suggestion_id \notin DOMAIN db.suggestions
    THEN Rejected(db, "dismiss", 404)
    ELSE Outcome(db.transactions, db.vendor_info,
                 [db.suggestions EXCEPT ![suggestion_id].status = "dismissed"],
                 [op |-> "dismiss", status |-> 200])

\* a faulty variant: a dismissal credits the vendor as an approval does
dismiss_suggestion_Crediting(db, suggestion_id) ==
    IF suggestion_id \notin DOMAIN db.suggestions
    THEN Rejected(db, "dismiss", 404)
    ELSE IF db.suggestions[suggestion_id].status /= "pending"
    THEN Rejected(db, "dismiss", 400)
    ELSE Outcome(db.transactions,
                 CreditVendor(db.vendor_info, db.suggestions[suggestion_id]),
                 [db.suggestions EXCEPT ![suggestion_id].status = "dismissed"],
                 [op |-> "dismiss", status |-> 200])

dismiss_suggestion(db, suggestion_id) ==
    IF suggestion_id \notin DOMAIN db.suggestions
    THEN Rejected(db, "dismiss", 404)
    ELSE IF db.suggestions[suggestion_id].status /= "pending"
    THEN Rejected(db, "dismiss", 400)
    ELSE Outcome(db.transactions, db.vendor_info,
                 [db.suggestions EXCEPT ![suggestion_id].status = "dismissed"],
                 [op |-> "dismiss", status |-> 200])

-----------------------------------------------------------------------------
(* PUT /transactions/{tx_id} *)

\* the old vendor's rule after one correction
Penalize(rules) ==
    LET corrected  == Get(rules, "corrected_count", 0) + 1
        assigned   == Get(rules, "assigned_count", 1)
        confidence == Confidence(corrected, assigned)
    IN  [k \in DOMAIN rules \cup {"corrected_count", "confidence"}
                \cup (IF confidence < 7000 THEN {"enabled"} ELSE {}) |->
            CASE k = "corrected_count" -> corrected
              [] k = "confidence"      -> confidence
              [] k = "enabled" /\ confidence < 7000 -> FALSE
              [] OTHER -> rules[k]]

\* a faulty variant: the auto_categorized flag of the Record is not consulted
TrackCorrection_AnyRecord(vis, tx, update_dict) ==
    IF /\ "vendor" \in DOMAIN update_dict
       /\ Truthy(tx.vendor)
       /\ update_dict["vendor"] /= tx.vendor
    THEN [v \in DOMAIN vis |->
            IF /\ vis[v].account_id = tx.account_id
               /\ vis[v].vendor_name = tx.vendor
               /\ HasPayload(vis[v].rules)
            THEN [vis[v] EXCEPT !.rules = Penalize(@)]
            ELSE vis[v]]
    ELSE vis

\* vendor_info after the correction tracking of an update of tx
TrackCorrection(vis, tx, update_dict) ==
    IF /\ tx.auto_categorized
       /\ "vendor" \in DOMAIN update_dict
       /\ Truthy(tx.vendor)
       /\ update_dict["vendor"] /= tx.vendor
    THEN [v \in DOMAIN vis |->
            IF /\ vis[v].account_id = tx.account_id
               /\ vis[v].vendor_name = tx.vendor
               /\ HasPayload(vis[v].rules)
            THEN [vis[v] EXCEPT !.rules = Penalize(@)]
            ELSE vis[v]]
    ELSE vis

\* update_dict holds the fields the request set (a field set to null maps
\* to None); setattr skips None
SetField(old, update_dict, field) ==
    IF field \in DOMAIN update_dict /\ update_dict[field] /= None_
    THEN update_dict[field] ELSE old

update_transaction(db, tx_id, update_dict) ==
    IF tx_id \notin DOMAIN db.transactions
    THEN Rejected(db, "update_transaction", 404)
    ELSE
      LET tx == db.transactions[tx_id]
          touched == DOMAIN update_dict \cap {"vendor", "category", "project"} /= {}
      IN  Outcome([db.transactions EXCEPT ![tx_id] =
                     [tx EXCEPT !.auto_categorized =
                                    IF tx.auto_categorized /\ touched THEN FALSE ELSE @,
                                !.vendor   = SetField(@, update_dict, "vendor"),
                                !.category = SetField(@, update_dict, "category"),
                                !.project  = SetField(@, update_dict, "project")]],
                  TrackCorrection(db.vendor_info, tx, update_dict),
                  db.suggestions,
                  [op |-> "update_transaction", status |-> 200])

-----------------------------------------------------------------------------
(* The requests of the model *)

\* bodies an approver may send
ApproveBodies ==
    { NoBody,
      [vendor |-> None_, category |-> "Misc", project |-> ""] }

\* ids a caller may name: the existing ones and the next, unknown one
SuggestionIds == 1..(Len(suggestions) + 1)

\* an identity no file of the model produces
UnknownTxId == TxId(<<"?">>, 0)

\* the edits a user may send
Updates ==
    { [project |-> "Reno"],
      [vendor |-> "Gas Co"] }

\* the files of the review workflow: purchases at one vendor
ReviewFiles ==
    { <<RowAcmeGas>>, <<RowAcmeGasAlt>>, <<RowAcmeGas, RowAcmeGasAlt>>,
      <<RowAcmeGas, RowAcmeGas>> }

\* the rule payloads set (PUT /vendor-info/{vid}) before the behaviours start
RuleTable(r1, r2, r3) ==
    [v \in DOMAIN InitialVendors |->
        [InitialVendors[v] EXCEPT !.rules = IF v = 1 THEN r1 ELSE IF v = 2 THEN r2 ELSE r3]]

InitialRules ==
    { RuleTable(r1, r2, r3) :
        r1 \in RuleChoices(1), r2 \in RuleChoices(2), r3 \in RuleChoices(3) }

-----------------------------------------------------------------------------
(* The review workflow: imports, approvals, dismissals and manual edits *)

Init ==
    /\ transactions = <<>>
    /\ vendor_info \in InitialRules
    /\ suggestions = <<>>
    /\ response = [op |-> "none", status |-> 200]
    /\ request = [op |-> "none"]

Import ==
    \E content \in ReviewFiles :
        \E order \in Orders(VendorsOf(vendor_info, 1)) :
            Commit(import_csv_content(DB, content, 1, order),
                   [op |-> "import", content |-> content, account_id |-> 1])

ApproveSuggestion ==
    \E suggestion_id \in SuggestionIds, body \in ApproveBodies :
        Commit(approve_suggestion(DB, suggestion_id, body),
               [op |-> "approve", suggestion_id |-> suggestion_id, body |-> body])

DismissSuggestion ==
    \E suggestion_id \in SuggestionIds :
        Commit(dismiss_suggestion(DB, suggestion_id),
               [op |-> "dismiss", suggestion_id |-> suggestion_id])

UpdateTransaction ==
    \E tx_id \in DOMAIN transactions \cup {UnknownTxId}, update_dict \in Updates :
        Commit(update_transaction(DB, tx_id, update_dict),
               [op |-> "update_transaction", tx_id |-> tx_id, update_dict |-> update_dict])

Next ==
    \/ Import
    \/ ApproveSuggestion
    \/ DismissSuggestion
    \/ UpdateTransaction

Spec == Init /\ [][Next]_vars

-----------------------------------------------------------------------------
(* Imports alone: every file of at most MaxRows rows *)

\* the import requests of this specification: the second account receives
\* single-row files
ImportRequests ==
    {rq \in Files \X Accounts : rq[2] = 1 \/ Len(rq[1]) = 1}

ImportFile ==
    \E rq \in ImportRequests :
        \E order \in Orders(VendorsOf(vendor_info, rq[2])) :
            Commit(import_csv_content(DB, rq[1], rq[2], order),
                   [op |-> "import", content |-> rq[1], account_id |-> rq[2]])

NextImport == ImportFile

SpecImport == Init /\ [][NextImport]_vars

-----------------------------------------------------------------------------
(* POST /suggestions/approve-all *)

\* the pending batches of all accounts
AllPending(sgs) == {k \in DOMAIN sgs : sgs[k].status = "pending"}

\* a faulty variant: the pending batches of every account
PendingOf_AnyAccount(sgs, account_id) ==
    {k \in DOMAIN sgs : sgs[k].status = "pending"}

\* the batches the query selects: pending, of the account
PendingOf(sgs, account_id) ==
    {k \in DOMAIN sgs : sgs[k].account_id = account_id /\ sgs[k].status = "pending"}

\* the body of "for s in pending": labels from the suggested values, the
\* vendor credited, the batch approved
RECURSIVE ApproveEach(_, _)
ApproveEach(db, ids) ==
    IF ids = <<>> THEN db
    ELSE LET s == db.suggestions[Head(ids)]
         IN  ApproveEach(
                [ transactions |-> LabelRows(db.transactions, s, s.suggested_vendor,
                                             s.suggested_category, s.suggested_project),
                  vendor_info  |-> CreditVendor(db.vendor_info, s),
                  suggestions  |-> [db.suggestions EXCEPT ![Head(ids)].status = "approved"] ],
                Tail(ids))

\* order: an order of the batches' ids; the query returns the selected ones
\* in that order
approve_all_suggestions(db, account_id, order) ==
    LET selected(k) == k \in PendingOf(db.suggestions, account_id)
        pending     == SelectSeq(order, selected)
        final       == ApproveEach(db, pending)
    IN  Outcome(final.transactions, final.vendor_info, final.suggestions,
                [op |-> "approve_all", status |-> 200, approved |-> Len(pending)])

-----------------------------------------------------------------------------
(* PATCH /transactions/bulk *)

\* the UPDATE writes every field the request set, a null included, and no
\* other column
BulkSet(tx, update_data) ==
    [f \in DOMAIN tx |-> IF f \in DOMAIN update_data THEN update_data[f] ELSE tx[f]]

bulk_update_transactions(db, ids, update_data, account_id) ==
    IF update_data = <<>>
    THEN Rejected(db, "bulk_update", 200)
    ELSE Outcome([id \in DOMAIN db.transactions |->
                     IF id \in ids /\ db.transactions[id].account_id = account_id
                     THEN BulkSet(db.transactions[id], update_data)
                     ELSE db.transactions[id]],
                 db.vendor_info, db.suggestions,
                 [op |-> "bulk_update", status |-> 200])

-----------------------------------------------------------------------------
(* extract_description_patterns *)

_NOISE ==
    { <<"L", "L", "C">>, <<"I", "N", "C">>, <<"C", "O">>,
      <<"C", "O", "R", "P">>, <<"L", "T", "D">>, <<"D", "B", "A">>,
      <<"T", "H", "E">>, <<"A", "N", "D">>, <<"O", "F">>,
      <<"F", "O", "R">>, <<"A", "T">>, <<"B", "Y">>,
      <<"A", "U", "T", "H", "O", "R", "I", "Z", "E", "D">>,
      <<"C", "H", "E", "C", "K", "C", "A", "R", "D">>,
      <<"D", "E", "B", "I", "T">>,
      <<"P", "U", "R", "C", "H", "A", "S", "E">>,
      <<"R", "E", "C", "U", "R", "R", "I", "N", "G">>,
      <<"P", "A", "Y", "M", "E", "N", "T">>, <<"P", "M", "T", "S">>,
      <<"P", "M", "T">>, <<"A", "C", "H">>, <<"P", "O", "S">>,
      <<"P", "I", "N">>, <<"A", "T", "M">>, <<"T", "S", "T">>,
      <<"O", "N", "L", "I", "N", "E">>,
      <<"T", "R", "A", "N", "S", "F", "E", "R">>,
      <<"D", "E", "P", "O", "S", "I", "T">>,
      <<"W", "I", "T", "H", "D", "R", "A", "W", "A", "L">>,
      <<"C", "H", "A", "R", "G", "E">>, <<"W", "A">>, <<"C", "A">>,
      <<"T", "X">>, <<"F", "L">>, <<"N", "Y">>, <<"O", "R">>,
      <<"A", "Z">>, <<"N", "V">>, <<"I", "L">>, <<"O", "H">>,
      <<"G", "A">>, <<"N", "C">>, <<"V", "A">>, <<"M", "A">>,
      <<"M", "N">>, <<"W", "I">>, <<"M", "O">>, <<"W", "W", "W">>,
      <<"C", "O", "M">>, <<"N", "E", "T">>, <<"O", "R", "G">>,
      <<"H", "T", "T", "P">>, <<"H", "T", "T", "P", "S">>,
      <<"S", "Q", "U">> }

\* the characters _SPLIT_RE splits on
Separators == {" ", "*", "#", "@", "!", "-", "_", "/", "\\", ".", ",", "+", "&"}

\* _SPLIT_RE.split(desc) without the empty strings; cur is the token being read
RECURSIVE Split(_, _)
Split(s, cur) ==
    IF s = <<>> THEN (IF cur = <<>> THEN <<>> ELSE <<cur>>)
    ELSE IF Head(s) \in Separators
         THEN (IF cur = <<>> THEN <<>> ELSE <<cur>>) \o Split(Tail(s), <<>>)
         ELSE Split(Tail(s), Append(cur, Head(s)))

\* _ALL_DIGITS_RE.match(t)
AllDigits(t) == t /= <<>> /\ \A i \in 1..Len(t) : \E d \in 1..10 : DigitChar[d] = t[i]

\* a faulty variant: the noise vocabulary is not consulted
Meaningful_AnyWord(t) == Len(t) >= 3 /\ ~AllDigits(t)

Meaningful(t) == Len(t) >= 3 /\ ~AllDigits(t) /\ t \notin _NOISE

\* a faulty variant: the tokens are taken from the description as written
extract_description_patterns_RawCase(description) ==
    LET desc       == Strip(description)
        meaningful == SelectSeq(Split(desc, <<>>), Meaningful)
    IN  IF meaningful = <<>> THEN <<>>
        ELSE IF Len(meaningful) >= 2
             THEN <<meaningful[1], meaningful[1] \o <<" ">> \o meaningful[2]>>
             ELSE <<meaningful[1]>>

extract_description_patterns(description) ==
    LET desc       == Strip(Upper(description))
        meaningful == SelectSeq(Split(desc, <<>>), Meaningful)
    IN  IF meaningful = <<>> THEN <<>>
        ELSE IF Len(meaningful) >= 2
             THEN <<meaningful[1], meaningful[1] \o <<" ">> \o meaningful[2]>>
             ELSE <<meaningful[1]>>

-----------------------------------------------------------------------------
(* POST /vendor-info/rebuild-rules *)

\* code points order the characters of a pattern: blank, digits, capitals
CodeOrder ==
    <<" ", "0", "1", "2", "3", "4", "5", "6", "7", "8", "9",
      "A", "B", "C", "D", "E", "F", "G", "H", "I", "J", "K", "L", "M",
      "N", "O", "P", "Q", "R", "S", "T", "U", "V", "W", "X", "Y", "Z">>

CodeOf(c) == CHOOSE i \in 1..Len(CodeOrder) : CodeOrder[i] = c

\* a < b for str
RECURSIVE StrLess(_, _)
StrLess(a, b) ==
    IF b = <<>> THEN FALSE
    ELSE IF a = <<>> THEN TRUE
    ELSE IF Head(a) = Head(b) THEN StrLess(Tail(a), Tail(b))
    ELSE CodeOf(Head(a)) < CodeOf(Head(b))

\* sorted(pattern_set)
RECURSIVE Sorted(_)
Sorted(S) ==
    IF S = {} THEN <<>>
    ELSE LET least == CHOOSE x \in S : \A y \in S \ {x} : StrLess(x, y)
         IN  <<least>> \o Sorted(S \ {least})

\* the set of patterns of all descriptions of vtxs
PatternSet(vtxs) ==
    UNION { {extract_description_patterns(vtxs[k].description)[i] :
                i \in 1..Len(extract_description_patterns(vtxs[k].description))} :
            k \in 1..Len(vtxs) }

\* Counter(values).most_common(1)[0][0], None for an empty counter: the
\* largest count wins and, among equal counts, the value met first
MostCommon(values) ==
    IF values = <<>> THEN None_
    ELSE LET n(v)     == Cardinality({k \in 1..Len(values) : values[k] = v})
             first(v) == CHOOSE k \in 1..Len(values) :
                            values[k] = v /\ \A j \in 1..(k - 1) : values[j] /= v
             best     == CHOOSE k \in 1..Len(values) :
                            /\ first(values[k]) = k
                            /\ \A j \in 1..Len(values) :
                                  \/ n(values[j]) < n(values[k])
                                  \/ n(values[j]) = n(values[k]) /\ k <= first(values[j])
         IN  values[best]

TruthyCategory(tx) == Truthy(tx.category)
TruthyProject(tx)  == Truthy(tx.project)
IsIncome(tx)  == tx.amount >= 0
IsExpense(tx) == tx.amount < 0

\* [tx.field for tx in txs if tx.field]
Categories(txs) ==
    LET kept == SelectSeq(txs, TruthyCategory) IN [k \in 1..Len(kept) |-> kept[k].category]
Projects(txs) ==
    LET kept == SelectSeq(txs, TruthyProject) IN [k \in 1..Len(kept) |-> kept[k].project]

\* the sign-aware map learnt from vtxs, <<>> for None
LearnBySign(vtxs, default_category, default_project) ==
    LET pos_txs == SelectSeq(vtxs, IsIncome)
        neg_txs == SelectSeq(vtxs, IsExpense)
        top(values, default) == IF values = <<>> THEN default ELSE MostCommon(values)
        ic == top(Categories(pos_txs), default_category)
        ip == top(Projects(pos_txs),   default_project)
        ec == top(Categories(neg_txs), default_category)
        ep == top(Projects(neg_txs),   default_project)
    IN  IF pos_txs /= <<>> /\ neg_txs /= <<>> /\ (ic /= ec \/ ip /= ep)
        THEN BySign(ic, ip, ec, ep)
        ELSE <<>>

\* a faulty variant: a rebuild enables every rule that is confident enough
RebuiltEnabled_Forgetful(existing, confidence) == confidence >= 7000

\* enabled = (not was_disabled) and confidence >= 0.70
RebuiltEnabled(existing, confidence) ==
    LET was_disabled == "enabled" \in DOMAIN existing /\ existing["enabled"] = FALSE
    IN  (~was_disabled) /\ confidence >= 7000

\* a faulty variant: the assignments counted so far are kept
RebuiltRules_Accumulating(existing, vtxs) ==
    LET default_category == MostCommon(Categories(vtxs))
        default_project  == MostCommon(Projects(vtxs))
        corrected        == Get(existing, "corrected_count", 0)
        assigned         == Max(Get(existing, "assigned_count", 0), Len(vtxs))
        confidence       == Confidence(corrected, assigned)
    IN  RulePayload(Sorted(PatternSet(vtxs)), default_category, default_project,
                    LearnBySign(vtxs, default_category, default_project),
                    RebuiltEnabled(existing, confidence),
                    assigned, corrected)

\* the payload a vendor with history vtxs is given
RebuiltRules(existing, vtxs) ==
    LET default_category == MostCommon(Categories(vtxs))
        default_project  == MostCommon(Projects(vtxs))
        corrected        == Get(existing, "corrected_count", 0)
        assigned         == Len(vtxs)
        confidence       == Confidence(corrected, assigned)
    IN  RulePayload(Sorted(PatternSet(vtxs)), default_category, default_project,
                    LearnBySign(vtxs, default_category, default_project),
                    RebuiltEnabled(existing, confidence),
                    assigned, corrected)

\* vendor_txs[vendor_name]: the labelled rows of the account, in query order
VendorTxs(txs, tx_order, vendor_name) ==
    LET rows == [k \in 1..Len(tx_order) |-> txs[tx_order[k]]]
        mine(tx) == tx.vendor = vendor_name
    IN  SelectSeq(rows, mine)

\* a faulty variant: vendors without history are rebuilt as well
RebuildEach_All(vis, txs, account_id, tx_order) ==
    [v \in DOMAIN vis |->
        IF vis[v].account_id = account_id
        THEN [vis[v] EXCEPT !.rules =
                 RebuiltRules(@, VendorTxs(txs, tx_order, vis[v].vendor_name))]
        ELSE vis[v]]

\* the first loop: every vendor of the account with history is rebuilt
RebuildEach(vis, txs, account_id, tx_order) ==
    [v \in DOMAIN vis |->
        LET vtxs == VendorTxs(txs, tx_order, vis[v].vendor_name)
        IN  IF vis[v].account_id = account_id /\ vtxs /= <<>>
            THEN [vis[v] EXCEPT !.rules = RebuiltRules(@, vtxs)]
            ELSE vis[v]]

\* pattern_owners[p]: the positions in vendor_order of the vendors listing p
Owners(vis, vendor_order, p) ==
    {k \in 1..Len(vendor_order) :
        /\ HasPayload(vis[vendor_order[k]].rules)
        /\ InSeq(p, Get(vis[vendor_order[k]].rules, "patterns", <<>>))}

\* a faulty variant: the vendor the query returned first keeps the pattern
Winner_First(vis, vendor_order, p) ==
    CHOOSE k \in Owners(vis, vendor_order, p) :
        \A j \in Owners(vis, vendor_order, p) : k <= j

\* owner_list.sort(key=lambda x: -x[0]); owner_list[0]: the sort is stable
Winner(vis, vendor_order, p) ==
    LET count(k) == Get(vis[vendor_order[k]].rules, "assigned_count", 0)
        owners   == Owners(vis, vendor_order, p)
    IN  CHOOSE k \in owners :
            /\ \A j \in owners : count(j) <= count(k)
            /\ \A j \in owners : count(j) = count(k) => k <= j

\* the second loop: a pattern with several owners stays with the winner
ResolveAmbiguity(vis, vendor_order) ==
    [v \in DOMAIN vis |->
        IF \E k \in 1..Len(vendor_order) : vendor_order[k] = v /\ HasPayload(vis[v].rules)
              /\ "patterns" \in DOMAIN vis[v].rules
        THEN LET k == CHOOSE k \in 1..Len(vendor_order) : vendor_order[k] = v
                 keep(p) == \/ Cardinality(Owners(vis, vendor_order, p)) <= 1
                            \/ Winner(vis, vendor_order, p) = k
             IN  [vis[v] EXCEPT !.rules.patterns = SelectSeq(@, keep)]
        ELSE vis[v]]

\* the patterns with more than one owner
Contested(vis, vendor_order) ==
    {p \in UNION { {Get(vis[vendor_order[k]].rules, "patterns", <<>>)[i] :
                      i \in 1..Len(Get(vis[vendor_order[k]].rules, "patterns", <<>>))} :
                   k \in 1..Len(vendor_order) } :
        Cardinality(Owners(vis, vendor_order, p)) > 1}

\* the labelled rows of an account
LabelledOf(txs, account_id) ==
    {id \in DOMAIN txs : txs[id].account_id = account_id /\ txs[id].vendor /= None_}

\* vendor_order, tx_order: the two queries' results in the order returned
rebuild_vendor_rules(db, account_id, vendor_order, tx_order) ==
    LET rebuilt == RebuildEach(db.vendor_info, db.transactions, account_id, tx_order)
        updated == Cardinality({v \in DOMAIN rebuilt :
                      /\ rebuilt[v].account_id = account_id
                      /\ VendorTxs(db.transactions, tx_order, rebuilt[v].vendor_name) /= <<>>})
    IN  Outcome(db.transactions, ResolveAmbiguity(rebuilt, vendor_order), db.suggestions,
                [op |-> "rebuild", status |-> 200, updated |-> updated,
                 ambiguous_patterns_resolved |->
                     Cardinality(Contested(rebuilt, vendor_order))])

-----------------------------------------------------------------------------
(* Imports, approvals, edits and rebuilds: the rules as they are learnt *)

\* the payloads put on the vendors before the behaviours start; the second
\* vendor's rule, the one with most assignments, is either disabled by hand or
\* of low confidence, or the vendor has no payload yet
AcmeRule == RulePayload(<<PatAcme>>, "Food", None_,
                        BySign("Refund", None_, "Food", None_), TRUE, 2, 0)
OtherAcmeRule == RulePayload(<<PatAcme>>, "Food", None_, <<>>, TRUE, 1, 0)
GasRuleChoices ==
    { RulePayload(<<PatGas>>, "Fuel", "Car", <<>>, FALSE, 3, 0),
      RulePayload(<<PatGas>>, "Fuel", "Car", <<>>, TRUE, 3, 1),
      <<>> }

RulesOf(gas) == (1 :> AcmeRule) @@ (2 :> gas) @@ (3 :> OtherAcmeRule)

InitRules ==
    /\ transactions = <<>>
    /\ vendor_info \in { [v \in DOMAIN InitialVendors |->
                            [InitialVendors[v] EXCEPT !.rules = RulesOf(gas)[v]]] :
                         gas \in GasRuleChoices }
    /\ suggestions = <<>>
    /\ response = [op |-> "none", status |-> 200]
    /\ request = [op |-> "none"]

\* the statements imported: (content, account)
StatementImports ==
    { <<<<RowAcmeGas>>, 1>>, <<<<RowAcmeGas, RowAcmeGas>>, 1>> }

\* the accounts whose rows are edited in bulk and whose rules are rebuilt
RuleAccounts == {1}

\* the vendor edits a user makes
VendorEdits == {[vendor |-> "Gas Co"]}

\* the bulk edits a user makes
BulkEdits == {[vendor |-> "Gas Co"]}

ImportStatement ==
    \E rq \in StatementImports :
        \E order \in Orders(VendorsOf(vendor_info, rq[2])) :
            Commit(import_csv_content(DB, rq[1], rq[2], order),
                   [op |-> "import", content |-> rq[1], account_id |-> rq[2]])

ApproveOne ==
    \E suggestion_id \in DOMAIN suggestions :
        Commit(approve_suggestion(DB, suggestion_id, NoBody),
               [op |-> "approve", suggestion_id |-> suggestion_id, body |-> NoBody])

DismissOne ==
    \E suggestion_id \in DOMAIN suggestions :
        Commit(dismiss_suggestion(DB, suggestion_id),
               [op |-> "dismiss", suggestion_id |-> suggestion_id])

ApproveAll ==
    \E account_id \in Accounts :
        \E order \in Orders(AllPending(suggestions)) :
            Commit(approve_all_suggestions(DB, account_id, order),
                   [op |-> "approve_all", account_id |-> account_id])

EditVendor ==
    \E tx_id \in DOMAIN transactions, update_dict \in VendorEdits :
        Commit(update_transaction(DB, tx_id, update_dict),
               [op |-> "update_transaction", tx_id |-> tx_id,
                update_dict |-> update_dict])

BulkUpdate ==
    \E account_id \in RuleAccounts, update_data \in BulkEdits :
        Commit(bulk_update_transactions(DB, DOMAIN transactions, update_data, account_id),
               [op |-> "bulk_update", ids |-> DOMAIN transactions,
                update_data |-> update_data, account_id |-> account_id])

Rebuild ==
    \E account_id \in RuleAccounts :
        \E vendor_order \in Orders(VendorsOf(vendor_info, account_id)),
           tx_order \in Orders(LabelledOf(transactions, account_id)) :
            Commit(rebuild_vendor_rules(DB, account_id, vendor_order, tx_order),
                   [op |-> "rebuild", account_id |-> account_id])

NextRules ==
    \/ ImportStatement
    \/ ApproveOne
    \/ DismissOne
    \/ ApproveAll
    \/ EditVendor
    \/ BulkUpdate
    \/ Rebuild

SpecRules == InitRules /\ [][NextRules]_vars

-----------------------------------------------------------------------------
(* Two accounts' batches, approved one by one or in bulk *)

\* a statement of the second account
ImportOther ==
    \E order \in Orders(VendorsOf(vendor_info, 2)) :
        Commit(import_csv_content(DB, <<RowAcmeRefund>>, 2, order),
               [op |-> "import", content |-> <<RowAcmeRefund>>, account_id |-> 2])

NextApprove ==
    \/ ImportStatement
    \/ ImportOther
    \/ ApproveOne
    \/ DismissOne
    \/ ApproveAll

SpecApprove == InitRules /\ [][NextApprove]_vars

-----------------------------------------------------------------------------
(* What the specification says of an import, in its own terms *)

ParseableRows(content) == {i \in 1..Len(content) : RowParses(content[i])}

AllParse(content) == ParseableRows(content) = 1..Len(content)

\* base = SHA-256(date || description || amount to 2 decimals)
BaseOf(row) ==
    generate_base_hash(DateStr(row.date), Strip(row.description), AmountOf(row.amount))

\* the number of earlier rows of the file with the same base hash
OccurrenceIndex(content, i) ==
    Cardinality({k \in ParseableRows(content) :
                    k < i /\ BaseOf(content[k]) = BaseOf(content[i])})

\* base + "-" + occurrence_index
FinalIdentity(content, i) == <<BaseOf(content[i]), OccurrenceIndex(content, i)>>

Identities(content) == {FinalIdentity(content, i) : i \in ParseableRows(content)}

\* the rows of the file whose identity storage does not hold
NewRows(content) ==
    {i \in ParseableRows(content) : FinalIdentity(content, i) \notin DOMAIN transactions}

\* the tables of an outcome
After(out) ==
    [ transactions |-> out.transactions, vendor_info |-> out.vendor_info,
      suggestions |-> out.suggestions ]

\* the element of a finite set of integers with n - 1 elements below it
Nth(S, n) == CHOOSE i \in S : Cardinality({j \in S : j < i}) = n - 1

\* C1: Idempotent re-import.  From storage that holds none of the identities
\* of a file of N parseable rows, importing the file into an account returns
\* imported = N, skipped = 0, and importing it again into the same account
\* right after returns imported = 0, skipped = N and adds no Record and no
\* SuggestionBatch.
C1_IdempotentReimport ==
    \A rq \in ImportRequests :
      \A o1, o2 \in Orders(VendorsOf(vendor_info, rq[2])) :
        (AllParse(rq[1]) /\ Identities(rq[1]) \cap DOMAIN transactions = {}) =>
          LET first  == import_csv_content(DB, rq[1], rq[2], o1)
              second == import_csv_content(After(first), rq[1], rq[2], o2)
          IN  /\ first.response.imported = Len(rq[1])
              /\ first.response.skipped = 0
              /\ second.response.imported = 0
              /\ second.response.skipped = Len(rq[1])
              /\ second.response.suggestions_created = 0
              /\ second.transactions = first.transactions
              /\ second.suggestions = first.suggestions

\* a file of two parseable rows has just been imported again: nothing was
\* imported, both rows were skipped
C1_Witness ==
    /\ request.op = "import"
    /\ Len(request.content) = 2
    /\ AllParse(request.content)
    /\ response.imported = 0
    /\ response.skipped = 2
    /\ Identities(request.content) \subseteq DOMAIN transactions

\* C2: Occurrence disambiguation.  The j-th row of a file with a given base
\* hash gets the identity base-j: after an import storage holds, besides what
\* it held, exactly those identities; two rows of a file never share one; and
\* rows that are equal and not yet stored are all inserted by the same pass,
\* each under its own identity.
C2_OccurrenceIdentities ==
    \A rq \in ImportRequests :
      \A order \in Orders(VendorsOf(vendor_info, rq[2])) :
        LET content == rq[1]
            out     == import_csv_content(DB, content, rq[2], order)
        IN  /\ DOMAIN out.transactions = DOMAIN transactions \cup Identities(content)
            /\ \A i, j \in ParseableRows(content) :
                  i /= j => FinalIdentity(content, i) /= FinalIdentity(content, j)
            /\ \A i \in NewRows(content) :
                  LET tx == out.transactions[FinalIdentity(content, i)]
                  IN  /\ tx.id = FinalIdentity(content, i)
                      /\ tx.account_id = rq[2]
                      /\ tx.description = Strip(content[i].description)
                      /\ tx.amount = StoredAmount(AmountOf(content[i].amount))
            /\ \A i, j \in NewRows(content) :
                  (i /= j /\ content[i] = content[j]) => out.response.imported >= 2

\* a file with the same row twice was imported into storage that held
\* neither: both occurrences are stored, under base-0 and base-1
C2_Witness ==
    /\ request.op = "import"
    /\ Len(request.content) = 2
    /\ request.content[1] = request.content[2]
    /\ AllParse(request.content)
    /\ response.imported = 2
    /\ <<BaseOf(request.content[1]), 0>> \in DOMAIN transactions
    /\ <<BaseOf(request.content[1]), 1>> \in DOMAIN transactions

\* F' == F followed by k >= 1 rows that each repeat a parseable row of F
Appends(F, Fp) ==
    /\ Len(Fp) > Len(F)
    /\ SubSeq(Fp, 1, Len(F)) = F
    /\ \A j \in (Len(F) + 1)..Len(Fp) :
          \E i \in ParseableRows(F) : Fp[j] = F[i]

\* the identities of the rows appended to F in F'
AppendedIdentities(F, Fp) ==
    {FinalIdentity(Fp, j) : j \in (Len(F) + 1)..Len(Fp)}

\* importing F and then F' into the same account returns, for F',
\* imported = k and skipped = |F|
AppendedRowsImported(F, Fp, account_id) ==
    \A o1, o2 \in Orders(VendorsOf(vendor_info, account_id)) :
        LET first  == import_csv_content(DB, F, account_id, o1)
            second == import_csv_content(After(first), Fp, account_id, o2)
        IN  /\ second.response.imported = Len(Fp) - Len(F)
            /\ second.response.skipped = Len(F)
            /\ DOMAIN second.transactions =
                   DOMAIN first.transactions \cup AppendedIdentities(F, Fp)

\* C3: Same-day repeats across files.  After file F is imported, importing
\* F' (F followed by k rows that each repeat a parseable row of F) imports
\* exactly the k appended rows and skips the rows of F, provided storage holds
\* none of the identities of the appended occurrences.
C3_AppendedRepeats ==
    \A F, Fp \in Files :
        (Appends(F, Fp) /\ AppendedIdentities(F, Fp) \cap DOMAIN transactions = {})
            => AppendedRowsImported(F, Fp, 1)

\* C3 as stated, whatever storage holds: fails once an earlier file has
\* stored more occurrences of the repeated row than F has
C3_AsStated ==
    \A F, Fp \in Files : Appends(F, Fp) => AppendedRowsImported(F, Fp, 1)

\* F' == F + one repeat was imported after F: one row imported, one skipped
C3_Witness ==
    /\ request.op = "import"
    /\ request.account_id = 1
    /\ Len(request.content) = 2
    /\ Appends(SubSeq(request.content, 1, 1), request.content)
    /\ response.imported = 1
    /\ response.skipped = 1
    /\ DOMAIN transactions = Identities(request.content)

\* C4: Skip iff the final identity exists.  A parseable row is skipped
\* exactly when storage holds its final identity before the batch; otherwise
\* it is imported and storage then holds one Record with that identity, and
\* the Records storage held are as they were.
C4_SkipIffExists ==
    \A rq \in ImportRequests :
      \A order \in Orders(VendorsOf(vendor_info, rq[2])) :
        LET content == rq[1]
            out     == import_csv_content(DB, content, rq[2], order)
            fresh   == NewRows(content)
            known   == ParseableRows(content) \ fresh
        IN  /\ out.response.imported = Cardinality(fresh)
            /\ out.response.skipped = Len(content) - Cardinality(fresh)
            /\ DOMAIN out.transactions \ DOMAIN transactions =
                   {FinalIdentity(content, i) : i \in fresh}
            /\ \A i \in fresh :
                  out.transactions[FinalIdentity(content, i)].id = FinalIdentity(content, i)
            /\ \A i \in known :
                  out.transactions[FinalIdentity(content, i)] =
                      transactions[FinalIdentity(content, i)]
            /\ \A id \in DOMAIN transactions : out.transactions[id] = transactions[id]

\* a file of two rows with the same base hash met storage that held the first
\* occurrence only: the first row was skipped, the second imported
C4_Witness ==
    /\ request.op = "import"
    /\ Len(request.content) = 2
    /\ AllParse(request.content)
    /\ BaseOf(request.content[1]) = BaseOf(request.content[2])
    /\ response.imported = 1
    /\ response.skipped = 1
    /\ Cardinality(DOMAIN transactions) = 2

\* the batches an outcome added to the ones storage held
NewBatches(out) == SubSeq(out.suggestions, Len(suggestions) + 1, Len(out.suggestions))

\* C5: Import never labels.  Every Record an import inserts has vendor,
\* category and project unset and auto_categorized false; the import changes
\* no Record, no vendor rule and no SuggestionBatch that storage held; every
\* batch it adds is pending.
C5_ImportNeverLabels ==
    \A content \in ReviewFiles :
      \A order \in Orders(VendorsOf(vendor_info, 1)) :
        LET out == import_csv_content(DB, content, 1, order)
        IN  /\ \A id \in DOMAIN out.transactions \ DOMAIN transactions :
                  /\ out.transactions[id].vendor = None_
                  /\ out.transactions[id].category = None_
                  /\ out.transactions[id].project = None_
                  /\ out.transactions[id].auto_categorized = FALSE
            /\ \A id \in DOMAIN transactions :
                  /\ id \in DOMAIN out.transactions
                  /\ out.transactions[id] = transactions[id]
            /\ out.vendor_info = vendor_info
            /\ Len(out.suggestions) >= Len(suggestions)
            /\ SubSeq(out.suggestions, 1, Len(suggestions)) = suggestions
            /\ \A k \in 1..Len(NewBatches(out)) : NewBatches(out)[k].status = "pending"

\* an import that matched a vendor has just added an unlabelled Record and a
\* pending batch next to a Record an earlier approval labelled
C5_Witness ==
    /\ request.op = "import"
    /\ response.imported >= 1
    /\ response.suggestions_created >= 1
    /\ suggestions[Len(suggestions)].status = "pending"
    /\ \E id \in DOMAIN transactions : transactions[id].auto_categorized
    /\ \E id \in DOMAIN transactions :
          /\ transactions[id].vendor = None_
          /\ InSeq(id, suggestions[Len(suggestions)].transaction_ids)

\* the vendor the Matcher returns for row i of the file, 0 for none
MatchedVendor(content, i, account_id, order) ==
    find_matching_vendor(Strip(content[i].description),
                         AutoCandidates(vendor_info, order))

\* the newly inserted rows of the file matched to vendor v
RowsMatched(content, v, account_id, order) ==
    {i \in NewRows(content) : MatchedVendor(content, i, account_id, order) = v}

\* C6: One batch per matched vendor.  An import adds exactly one pending
\* SuggestionBatch for each vendor the Matcher returned for a newly inserted
\* row; its transaction_ids are the identities of the newly inserted rows
\* matched to that vendor, in file order; no other row is in a batch; and
\* suggestions_created is the number of batches added.
C6_OneBatchPerVendor ==
    \A rq \in ImportRequests :
      \A order \in Orders(VendorsOf(vendor_info, rq[2])) :
        LET content == rq[1]
            out     == import_csv_content(DB, content, rq[2], order)
            nb      == NewBatches(out)
            vendors == {MatchedVendor(content, i, rq[2], order) :
                            i \in NewRows(content)} \ {0}
        IN  /\ Len(nb) = Cardinality(vendors)
            /\ out.response.suggestions_created = Len(nb)
            /\ \A v \in vendors :
                  LET rows == RowsMatched(content, v, rq[2], order)
                  IN  \E k \in 1..Len(nb) :
                        /\ nb[k].vendor_info_id = v
                        /\ nb[k].account_id = rq[2]
                        /\ nb[k].status = "pending"
                        /\ nb[k].transaction_ids =
                              [n \in 1..Cardinality(rows) |->
                                  FinalIdentity(content, Nth(rows, n))]
                        /\ \A m \in 1..Len(nb) : nb[m].vendor_info_id = v => m = k
            /\ \A k \in 1..Len(nb) : nb[k].vendor_info_id \in vendors

\* one import matched two vendors and created a batch for each
C6_Witness ==
    /\ request.op = "import"
    /\ response.imported = 2
    /\ response.suggestions_created = 2
    /\ Len(suggestions) >= 2
    /\ suggestions[Len(suggestions)].vendor_info_id
          /= suggestions[Len(suggestions) - 1].vendor_info_id

\* the call just answered was an approve or dismiss of a batch that was no
\* longer pending
TerminalCall ==
    /\ request'.op \in {"approve", "dismiss"}
    /\ request'.suggestion_id \in DOMAIN suggestions
    /\ suggestions[request'.suggestion_id].status /= "pending"

\* C7: Batch status only moves pending -> approved or pending -> dismissed.
\* No step removes a batch or changes the status of one that is not pending,
\* and an approve or dismiss call on an approved or dismissed batch is
\* rejected (status 400) and changes no Record, no vendor rule and no batch.
C7_StatusOnlyLeavesPending ==
    [][ /\ \A k \in DOMAIN suggestions :
              /\ k \in DOMAIN suggestions'
              /\ suggestions'[k].status /= suggestions[k].status =>
                    /\ suggestions[k].status = "pending"
                    /\ suggestions'[k].status \in {"approved", "dismissed"}
        /\ TerminalCall =>
              /\ response'.status = 400
              /\ transactions' = transactions
              /\ vendor_info' = vendor_info
              /\ suggestions' = suggestions ]_vars

\* a dismiss call on an approved batch was rejected
C7_Witness ==
    /\ request.op = "dismiss"
    /\ request.suggestion_id \in DOMAIN suggestions
    /\ suggestions[request.suggestion_id].status = "approved"
    /\ response.status = 400

\* no value: null or the empty string
Empty(v) == v = None_ \/ v = ""

\* the value an approval has for a field: the approver's override when it is
\* not empty, else the batch's suggested value
Effective(override, suggested) == IF Empty(override) THEN suggested ELSE override

PendingIds == {k \in DOMAIN suggestions : suggestions[k].status = "pending"}

\* the Records batch s references
Referenced(s) == {id \in DOMAIN transactions : InSeq(id, s.transaction_ids)}

\* C8: Approve applies the labels.  Approving a pending batch sets, on every
\* Record it references, each of vendor, category and project for which the
\* override or the suggested value is not empty to that value, leaves a field
\* for which both are empty as it was, sets auto_categorized to true, and
\* moves the batch to approved.
C8_ApproveAppliesLabels ==
    \A sid \in PendingIds : \A body \in ApproveBodies :
        LET s   == suggestions[sid]
            out == approve_suggestion(DB, sid, body)
            v   == Effective(body.vendor,   s.suggested_vendor)
            c   == Effective(body.category, s.suggested_category)
            p   == Effective(body.project,  s.suggested_project)
        IN  /\ out.response.status = 200
            /\ out.suggestions[sid].status = "approved"
            /\ \A id \in Referenced(s) :
                  LET old == transactions[id]
                      new == out.transactions[id]
                  IN  /\ new.vendor   = IF Empty(v) THEN old.vendor   ELSE v
                      /\ new.category = IF Empty(c) THEN old.category ELSE c
                      /\ new.project  = IF Empty(p) THEN old.project  ELSE p
                      /\ new.auto_categorized = TRUE

\* C8 as stated: every referenced Record ends with the suggested (or
\* overriding) vendor, category and project, an empty suggested value included
C8_AsStated ==
    \A sid \in PendingIds : \A body \in ApproveBodies :
        LET s   == suggestions[sid]
            out == approve_suggestion(DB, sid, body)
        IN  /\ out.suggestions[sid].status = "approved"
            /\ \A id \in Referenced(s) :
                  LET new == out.transactions[id]
                  IN  /\ new.vendor   = Effective(body.vendor,   s.suggested_vendor)
                      /\ new.category = Effective(body.category, s.suggested_category)
                      /\ new.project  = Effective(body.project,  s.suggested_project)
                      /\ new.auto_categorized = TRUE

\* an approval with a category override has labelled a Record: it carries the
\* batch's vendor and the overriding category and is flagged
C8_Witness ==
    /\ request.op = "approve"
    /\ response.status = 200
    /\ request.body.category = "Misc"
    /\ request.suggestion_id \in DOMAIN suggestions
    /\ suggestions[request.suggestion_id].status = "approved"
    /\ \E id \in Referenced(suggestions[request.suggestion_id]) :
          /\ transactions[id].vendor = suggestions[request.suggestion_id].suggested_vendor
          /\ transactions[id].category = "Misc"
          /\ transactions[id].auto_categorized

\* C9: Approve credits the vendor once.  Approving a pending batch of k
\* Records adds k to assigned_count of the rule of the batch's vendor and
\* leaves every other key of that rule and every other vendor as they were;
\* a further approve call on the batch adds nothing.
C9_ApproveAddsBatchSize ==
    \A sid \in PendingIds : \A body \in ApproveBodies :
        LET s     == suggestions[sid]
            v     == s.vendor_info_id
            out   == approve_suggestion(DB, sid, body)
            again == approve_suggestion(After(out), sid, body)
        IN  (v \in DOMAIN vendor_info /\ vendor_info[v].rules /= <<>>) =>
              /\ out.vendor_info[v].rules.assigned_count =
                    vendor_info[v].rules.assigned_count + Len(s.transaction_ids)
              /\ DOMAIN out.vendor_info[v].rules = DOMAIN vendor_info[v].rules
              /\ \A key \in DOMAIN vendor_info[v].rules \ {"assigned_count"} :
                    out.vendor_info[v].rules[key] = vendor_info[v].rules[key]
              /\ \A w \in DOMAIN vendor_info \ {v} : out.vendor_info[w] = vendor_info[w]
              /\ DOMAIN out.vendor_info = DOMAIN vendor_info
              /\ again.vendor_info = out.vendor_info

\* a batch of two Records was approved and its vendor's assigned_count, 2
\* when the rule was written, is now 4
C9_Witness ==
    /\ request.op = "approve"
    /\ response.status = 200
    /\ request.suggestion_id \in DOMAIN suggestions
    /\ Len(suggestions[request.suggestion_id].transaction_ids) = 2
    /\ vendor_info[suggestions[request.suggestion_id].vendor_info_id].rules.assigned_count = 4

\* C10: Dismiss changes the status alone.  Dismissing a pending batch sets
\* that batch's status to dismissed and changes no Record, no vendor rule and
\* nothing else of any batch.
C10_DismissOnlyStatus ==
    \A sid \in PendingIds :
        LET out == dismiss_suggestion(DB, sid)
        IN  /\ out.response.status = 200
            /\ out.transactions = transactions
            /\ out.vendor_info = vendor_info
            /\ out.suggestions = [suggestions EXCEPT ![sid].status = "dismissed"]

\* a batch was dismissed: its Records are still unlabelled and its vendor's
\* assigned_count is what the rule was written with
C10_Witness ==
    /\ request.op = "dismiss"
    /\ response.status = 200
    /\ request.suggestion_id \in DOMAIN suggestions
    /\ suggestions[request.suggestion_id].status = "dismissed"
    /\ \A id \in Referenced(suggestions[request.suggestion_id]) :
          transactions[id].vendor = None_ /\ ~transactions[id].auto_categorized
    /\ vendor_info[suggestions[request.suggestion_id].vendor_info_id].rules.assigned_count = 2

-----------------------------------------------------------------------------
(* What the specification says of approvals in bulk, edits and rebuilds *)

\* the batches of an account that await a decision
AwaitingOf(account_id) ==
    {k \in DOMAIN suggestions :
        suggestions[k].account_id = account_id /\ suggestions[k].status = "pending"}

\* the tables after the batches ids were approved one call at a time, without
\* overrides
RECURSIVE ApproveInTurn(_, _)
ApproveInTurn(db, ids) ==
    IF ids = <<>> THEN db
    ELSE ApproveInTurn(After(approve_suggestion(db, Head(ids), NoBody)), Tail(ids))

\* C11: Bulk approve is equivalent to single approves.  approve_all(account)
\* leaves Records, vendor rules and batches as approving each pending batch of
\* the account by a call of its own does, in whatever order, and leaves the
\* batches of other accounts and the batches already decided as they were.
C11_BulkApproveAsSingles ==
    \A account_id \in Accounts :
      \A order \in Orders(AllPending(suggestions)) :
        LET bulk == approve_all_suggestions(DB, account_id, order)
        IN  /\ \A turn \in Orders(AwaitingOf(account_id)) :
                  After(bulk) = ApproveInTurn(DB, turn)
            /\ \A k \in DOMAIN suggestions \ AwaitingOf(account_id) :
                  bulk.suggestions[k] = suggestions[k]
            /\ \A k \in AwaitingOf(account_id) :
                  bulk.suggestions[k].status = "approved"
            /\ bulk.response.approved = Cardinality(AwaitingOf(account_id))

\* a bulk approval has approved two batches of one account while a batch of
\* the other account stays pending
C11_Witness ==
    /\ request.op = "approve_all"
    /\ response.approved = 2
    /\ AwaitingOf(request.account_id) = {}
    /\ \E k \in DOMAIN suggestions :
          /\ suggestions[k].account_id /= request.account_id
          /\ suggestions[k].status = "pending"
    /\ \E id \in DOMAIN transactions : transactions[id].auto_categorized

\* conf (in 1/10000) is round(1 - corrected / max(assigned, 1), 4): the
\* nearest multiple of 1/10000, the even one when two are equally near
IsRounded(conf, corrected, assigned) ==
    LET d == IF assigned >= 1 THEN assigned ELSE 1
        n == 10000 * (d - corrected)
        e == IF n - conf * d >= 0 THEN n - conf * d ELSE conf * d - n
    IN  2 * e < d \/ (2 * e = d /\ conf % 2 = 0)

\* the edits of one Record the statements about corrections are tried on
CorrectionEdits ==
    { [vendor |-> "Gas Co"], [vendor |-> "Acme"], [vendor |-> None_],
      [category |-> "Misc"] }

\* the vendor of account_id named vendor_name, 0 if there is none
VendorNamed(account_id, vendor_name) ==
    IF \E v \in DOMAIN vendor_info :
          vendor_info[v].account_id = account_id /\ vendor_info[v].vendor_name = vendor_name
    THEN CHOOSE v \in DOMAIN vendor_info :
          vendor_info[v].account_id = account_id /\ vendor_info[v].vendor_name = vendor_name
    ELSE 0

\* rule new is rule old after one correction
Penalized(old, new) ==
    /\ new.corrected_count = old.corrected_count + 1
    /\ IsRounded(new.confidence, new.corrected_count, old.assigned_count)
    /\ new.enabled = (old.enabled /\ new.confidence >= 7000)
    /\ DOMAIN new = DOMAIN old
    /\ \A key \in DOMAIN old \ {"corrected_count", "confidence", "enabled"} :
          new[key] = old[key]

\* C12: Correction penalty.  An edit that changes the vendor of an
\* auto-categorized Record adds 1 to corrected_count of the old vendor's rule,
\* recomputes its confidence and disables it below 0.70; an edit of a Record
\* that is not auto-categorized, or that leaves the Record's vendor as it was,
\* changes no rule; no other vendor's rule changes.
C12_CorrectionPenalty ==
    \A id \in DOMAIN transactions : \A update_dict \in CorrectionEdits :
        LET tx  == transactions[id]
            out == update_transaction(DB, id, update_dict)
            old == VendorNamed(tx.account_id, tx.vendor)
        IN  IF tx.auto_categorized /\ out.transactions[id].vendor /= tx.vendor
            THEN /\ \A v \in DOMAIN vendor_info \ {old} :
                       out.vendor_info[v] = vendor_info[v]
                 /\ (old /= 0 /\ vendor_info[old].rules /= <<>>) =>
                       Penalized(vendor_info[old].rules, out.vendor_info[old].rules)
            ELSE out.vendor_info = vendor_info

\* the Records of an account that carry the auto_categorized flag
AutoOf(account_id) ==
    {id \in DOMAIN transactions :
        transactions[id].account_id = account_id /\ transactions[id].auto_categorized}

\* C13: A manual edit clears the flag.  After a single-record update or a
\* bulk update that sets the vendor, category or project of a Record whose
\* auto_categorized flag is true, the Record's flag is false.
C13_ManualEditClearsFlag ==
    /\ \A id \in DOMAIN transactions : \A update_dict \in CorrectionEdits :
          transactions[id].auto_categorized =>
              ~update_transaction(DB, id, update_dict).transactions[id].auto_categorized
    /\ \A account_id \in Accounts : \A update_data \in BulkEdits :
          \A id \in AutoOf(account_id) :
              ~bulk_update_transactions(DB, DOMAIN transactions, update_data,
                                        account_id).transactions[id].auto_categorized

\* the rule's confidence is what its counters give
ConfidenceHolds(rules) ==
    IsRounded(rules.confidence, rules.corrected_count, rules.assigned_count)

\* the counters of a rule and the confidence derived from them
Counters(rules) ==
    IF rules = <<>> THEN <<>>
    ELSE <<rules.assigned_count, rules.corrected_count, rules.confidence>>

\* a rebuild or correction that took rule old to rule new keeps the
\* equation: it holds of what was written, and still holds where it held
KeepsConfidence(old, new) ==
    /\ Counters(new) /= Counters(old) => ConfidenceHolds(new)
    /\ (old /= <<>> /\ ConfidenceHolds(old)) => ConfidenceHolds(new)

\* C14: Confidence invariant under rebuilds and corrections.  Every rule a
\* rebuild or a correction writes has confidence ==
\* round(1 - corrected_count / max(assigned_count, 1), 4), and neither changes
\* a rule it does not write: with payloads of the Rule Builder the equation
\* holds after any sequence of rebuilds and corrections.
C14_ConfidenceUnderRebuildAndCorrection ==
    /\ \A account_id \in RuleAccounts :
         \A vendor_order \in Orders(VendorsOf(vendor_info, account_id)),
            tx_order \in Orders(LabelledOf(transactions, account_id)) :
            \A out \in {rebuild_vendor_rules(DB, account_id, vendor_order,
                                              tx_order).vendor_info} :
              \A v \in DOMAIN vendor_info :
                  /\ KeepsConfidence(vendor_info[v].rules, out[v].rules)
                  /\ (\E id \in LabelledOf(transactions, account_id) :
                          /\ vendor_info[v].account_id = account_id
                          /\ transactions[id].vendor = vendor_info[v].vendor_name)
                        => ConfidenceHolds(out[v].rules)
    /\ \A id \in DOMAIN transactions : \A update_dict \in CorrectionEdits :
            \A out \in {update_transaction(DB, id, update_dict).vendor_info} :
              \A v \in DOMAIN vendor_info :
                  KeepsConfidence(vendor_info[v].rules, out[v].rules)

\* a rebuild has recomputed the rule of a vendor that was corrected once and
\* is left with one labelled Record: its confidence is 0
C14_Witness ==
    /\ request.op = "rebuild"
    /\ vendor_info[1].rules.corrected_count = 1
    /\ vendor_info[1].rules.assigned_count = 1
    /\ vendor_info[1].rules.confidence = 0

\* the vendors that have a rule payload
Ruled == { v \in DOMAIN vendor_info : vendor_info[v].rules /= <<>> }

\* C15: the data-model invariant confidence ==
\* round(1 - corrected_count / max(assigned_count, 1), 4) holds of every rule in
\* every reachable state: after any sequence of imports, single and bulk
\* approvals, dismissals, corrections and rebuilds, also right after an
\* approval has added to assigned_count.
C15_ConfidenceAlways ==
    \A v \in Ruled : ConfidenceHolds(vendor_info[v].rules)

\* C16: every rule has 0 <= confidence <= 1, that is, corrected_count never
\* exceeds max(assigned_count, 1), in every state reachable by imports,
\* approvals, corrections and rebuilds.
C16_ConfidenceInRange ==
    \A v \in Ruled :
        LET rules == vendor_info[v].rules
        IN  /\ 0 <= rules.confidence
            /\ rules.confidence <= 10000
            /\ rules.corrected_count <= Max(rules.assigned_count, 1)

\* the rule of vendor v in payload table vis is disabled
Disabled(vis, v) ==
    /\ vis[v].rules /= <<>>
    /\ "enabled" \in DOMAIN vis[v].rules
    /\ vis[v].rules["enabled"] = FALSE

\* C17: Sticky disable.  Once a rule's enabled flag is false, set by hand or
\* by the correction step, no rebuild sets it back to true, whatever the
\* recomputed confidence: through every rebuild, approval, correction and the
\* other steps that are not an edit of the payload, a disabled rule stays
\* disabled.
C17_StickyDisable ==
    [][\A v \in DOMAIN vendor_info :
          Disabled(vendor_info, v) => Disabled(vendor_info', v)]_vars

\* a rebuild has recomputed, from the vendor's history, the rule that was
\* disabled by hand: its confidence is 1.0 and it is still disabled
C17_Witness ==
    /\ request.op = "rebuild"
    /\ Disabled(vendor_info, 2)
    /\ vendor_info[2].rules.default_category = "Food"
    /\ vendor_info[2].rules.corrected_count = 0
    /\ vendor_info[2].rules.confidence = 10000
    /\ vendor_info[2].rules.confidence >= _CONFIDENCE_ASSIGN_THRESHOLD

\* the patterns the rule of vendor v lists in payload table vis
Listed(vis, v) ==
    IF HasPayload(vis[v].rules)
    THEN LET patterns == Get(vis[v].rules, "patterns", <<>>)
         IN  {patterns[i] : i \in 1..Len(patterns)}
    ELSE {}

\* the vendors of the account whose rule lists pattern p
Listing(vis, account_id, p) ==
    {v \in DOMAIN vis : vis[v].account_id = account_id /\ p \in Listed(vis, v)}

\* the assigned_count the ambiguity step reads
CountRead(vis, v) == Get(vis[v].rules, "assigned_count", 0)

\* C18: Ambiguity resolution.  After a rebuild of an account no pattern is
\* listed by more than one of the account's vendor rules; a pattern that
\* several vendors listed after the per-vendor step is kept by exactly one of
\* them, one whose assigned_count (as the per-vendor step left it) is highest
\* among them, and removed from the others; a pattern listed by one vendor is
\* kept, and no rule lists a pattern it did not list.
C18_AmbiguityResolved ==
    \A account_id \in RuleAccounts :
      \A vendor_order \in Orders(VendorsOf(vendor_info, account_id)),
         tx_order \in Orders(LabelledOf(transactions, account_id)) :
        \A mid \in {RebuildEach(vendor_info, transactions, account_id, tx_order)} :
        \A post \in {rebuild_vendor_rules(DB, account_id, vendor_order,
                                          tx_order).vendor_info} :
          /\ \A v \in DOMAIN vendor_info :
                /\ Listed(post, v) \subseteq Listed(mid, v)
                /\ post[v].account_id /= account_id => post[v] = vendor_info[v]
          /\ \A p \in UNION {Listed(mid, v) : v \in DOMAIN mid} :
              \A before \in {Listing(mid, account_id, p)} :
              \A after \in {Listing(post, account_id, p)} :
                /\ Cardinality(after) <= 1
                /\ after \subseteq before
                /\ Cardinality(before) = 1 => after = before
                /\ Cardinality(before) > 1 =>
                      \E w \in before :
                          /\ after = {w}
                          /\ CountRead(post, w) = CountRead(mid, w)
                          /\ \A v \in before : CountRead(mid, v) <= CountRead(mid, w)

\* a rebuild has settled a pattern two vendors listed: the vendor without
\* history, with four assignments, keeps ACME, and the rebuilt vendor, with
\* two, is left with its other pattern
C18_Witness ==
    /\ request.op = "rebuild"
    /\ response.ambiguous_patterns_resolved = 1
    /\ vendor_info[1].rules.assigned_count = 4
    /\ vendor_info[1].rules.patterns = <<PatAcme>>
    /\ vendor_info[2].rules.assigned_count = 2
    /\ Len(vendor_info[2].rules.patterns) = 1
    /\ PatAcme \notin Listed(vendor_info, 2)

-----------------------------------------------------------------------------
(* The matcher on its own: descriptions and candidate lists *)

MaxCandidates == 3

\* the descriptions matched
MatcherDescriptions ==
    { <<"A", "c", "m", "e", " ", "G", "a", "s">>,
      <<"a", "c", "m", "e">>,
      <<"S", "h", "e", "l", "l">>,
      <<>> }

\* the vendor rows candidates are taken from: patterns in upper and in lower
\* case, equal and different counts, an empty pattern, no payload, and a
\* payload without assigned_count whose second pattern is the one that occurs
MatcherPool ==
    (1 :> [id |-> 1, account_id |-> 1, vendor_name |-> "Acme",
           rules |-> [patterns |-> <<PatAcme>>, assigned_count |-> 2]]) @@
    (2 :> [id |-> 2, account_id |-> 1, vendor_name |-> "Acme Fuel",
           rules |-> [patterns |-> <<<<"a", "c", "m", "e">>>>, assigned_count |-> 5]]) @@
    (3 :> [id |-> 3, account_id |-> 1, vendor_name |-> "Gas Co",
           rules |-> [patterns |-> <<PatGas>>, assigned_count |-> 5]]) @@
    (4 :> [id |-> 4, account_id |-> 1, vendor_name |-> "Blank",
           rules |-> [patterns |-> <<<<>>>>, assigned_count |-> 9]]) @@
    (5 :> [id |-> 5, account_id |-> 1, vendor_name |-> "Bare", rules |-> <<>>]) @@
    (6 :> [id |-> 6, account_id |-> 1, vendor_name |-> "Station",
           rules |-> [patterns |-> <<<<"G", "a", "s", " ", "C", "o">>, PatAcme>>]])

\* the candidate lists: up to MaxCandidates different rows, in any order
CandidateLists ==
    UNION { Orders(S) : S \in {T \in SUBSET DOMAIN MatcherPool :
                                  Cardinality(T) <= MaxCandidates} }

InitMatcher ==
    /\ transactions = <<>>
    /\ vendor_info = MatcherPool
    /\ suggestions = <<>>
    /\ response = [op |-> "none", status |-> 200]
    /\ request \in { [op |-> "match", description |-> d, candidates |-> c] :
                        d \in MatcherDescriptions, c \in CandidateLists }

\* the rows a list of ids names
RowsOf(ids) == [k \in 1..Len(ids) |-> vendor_info[ids[k]]]

Match ==
    /\ response.op = "none"
    /\ response' = [op |-> "match", status |-> 200,
                    vendor |-> find_matching_vendor(request.description,
                                                    RowsOf(request.candidates))]
    /\ UNCHANGED <<transactions, vendor_info, suggestions, request>>

NextMatcher == Match

SpecMatcher == InitMatcher /\ [][NextMatcher]_vars

\* two characters that differ at most in case
SameIgnoringCase(a, b) ==
    \/ a = b
    \/ a \in DOMAIN ToUpper /\ ToUpper[a] = b
    \/ b \in DOMAIN ToUpper /\ ToUpper[b] = a

\* p occurs in d, case ignored
OccursIgnoringCase(p, d) ==
    \E i \in 0..(Len(d) - Len(p)) :
        \A j \in 1..Len(p) : SameIgnoringCase(p[j], d[i + j])

\* the positions of the candidates with a non-empty pattern occurring in d
Matching(d, candidates) ==
    {k \in 1..Len(candidates) :
        \E p \in Listed(candidates, k) : p /= <<>> /\ OccursIgnoringCase(p, d)}

\* C19: Matcher greediness.  find_matching_vendor returns None exactly when no
\* candidate has a non-empty pattern that occurs, case ignored, in the
\* description; otherwise it returns one candidate, one that matches and whose
\* assigned_count is highest among the matching candidates.
C19_MatcherGreedy ==
    response.op = "match" =>
        \A candidates \in {RowsOf(request.candidates)} :
        \A matching \in {Matching(request.description, candidates)} :
            /\ response.vendor = 0 <=> matching = {}
            /\ matching /= {} =>
                  \E k \in matching :
                      /\ response.vendor = candidates[k].id
                      /\ \A j \in matching :
                            CountRead(candidates, j) <= CountRead(candidates, k)

\* three candidates match "Acme Gas"; the first has the lowest count and the
\* other two the same, highest one: the second is returned
C19_Witness ==
    /\ response.op = "match"
    /\ request.candidates = <<1, 2, 3>>
    /\ Matching(request.description, RowsOf(request.candidates)) = {1, 2, 3}
    /\ response.vendor = 2

-----------------------------------------------------------------------------
(* What the specification says of the rules an import may use *)

\* a purchase whose description names the second vendor only
RowGas ==
    [ date |-> "01/05/2024", amount |-> <<-1000>>,
      description |-> <<"G", "a", "s">> ]

\* the files the statement about eligibility is tried on
EligibilityFiles ==
    { <<RowAcmeGas>>, <<RowAcmeRefund>>, <<RowGas>>, <<RowGas, RowAcmeRefund>> }

\* the rule of vendor v, as storage holds it, may not be used by an import
\* into the account
Barred(v, account_id) ==
    \/ vendor_info[v].account_id /= account_id
    \/ Disabled(vendor_info, v)
    \/ (HasPayload(vendor_info[v].rules)
          /\ "confidence" \in DOMAIN vendor_info[v].rules
          /\ vendor_info[v].rules.confidence < _CONFIDENCE_ASSIGN_THRESHOLD)
    \/ Listed(vendor_info, v) = {}

\* C20: Match-time eligibility.  An import never adds a SuggestionBatch for a
\* vendor whose rule, when the import starts, is disabled, or has confidence
\* below 0.70, or lists no pattern, or that belongs to another account.
C20_EligibleOnly ==
    \A content \in EligibilityFiles : \A account_id \in Accounts :
      \A order \in Orders(VendorsOf(vendor_info, account_id)) :
        \A added \in {NewBatches(import_csv_content(DB, content, account_id, order))} :
          \A k \in DOMAIN added :
              /\ added[k].vendor_info_id \in DOMAIN vendor_info
              /\ added[k].account_id = account_id
              /\ ~Barred(added[k].vendor_info_id, account_id)

\* an import has made a batch for the first vendor while the second vendor's
\* rule, disabled, matched the row with the higher assigned_count
C20_Witness ==
    /\ request.op = "import"
    /\ response.suggestions_created = 1
    /\ suggestions[Len(suggestions)].vendor_info_id = 1
    /\ Barred(2, request.account_id)
    /\ Disabled(vendor_info, 2)
    /\ CountRead(vendor_info, 2) > CountRead(vendor_info, 1)
    /\ \A i \in DOMAIN request.content :
          RuleMatches(Upper(Strip(request.content[i].description)),
                      vendor_info[2].rules)

-----------------------------------------------------------------------------
(* The tokenizer on its own: descriptions built from words and separators *)

MaxWords == 3

\* the words descriptions are built from: vendor words in mixed case, a
\* legal suffix in lower case, a boilerplate word, a number, a state code and
\* a word of letters and digits
TokenizerWords ==
    { <<"S", "h", "e", "l", "l">>,
      <<"i", "n", "c">>,
      <<"C", "H", "E", "C", "K", "C", "A", "R", "D">>,
      <<"1", "2", "3", "4">>,
      <<"W", "A">>,
      <<"A", "1", "B">>,
      <<"G", "a", "s">> }

\* what stands between two words
TokenizerGaps == { <<" ">>, <<" ", "#">>, <<".">> }

\* the words of ws with gap between them
RECURSIVE Joined(_, _)
Joined(ws, gap) ==
    IF ws = <<>> THEN <<>>
    ELSE IF Len(ws) = 1 THEN ws[1]
    ELSE ws[1] \o gap \o Joined(Tail(ws), gap)

\* the description of the specification's example
ExampleDescription ==
    <<"C", "H", "E", "C", "K", "C", "A", "R", "D", " ", "P", "U", "R", "C", "H", "A", "S", "E", " ", "S", "T", "A", "R", "B", "U", "C", "K", "S", " ", "#", "1", "2", "3", "4", " ", "S", "E", "A", "T", "T", "L", "E", " ", "W", "A">>

TokenizerDescriptions ==
    {ExampleDescription} \cup
    { Joined(ws, gap) : ws \in UNION {[1..n -> TokenizerWords] : n \in 0..MaxWords},
                        gap \in TokenizerGaps } \cup
    { <<" ">> \o w \o <<" ", "*">> : w \in TokenizerWords }

InitTokenizer ==
    /\ transactions = <<>>
    /\ vendor_info = InitialVendors
    /\ suggestions = <<>>
    /\ response = [op |-> "none", status |-> 200]
    /\ request \in { [op |-> "extract", description |-> d] : d \in TokenizerDescriptions }

Extract ==
    /\ response.op = "none"
    /\ response' = [op |-> "extract", status |-> 200,
                    patterns |-> extract_description_patterns(request.description)]
    /\ UNCHANGED <<transactions, vendor_info, suggestions, request>>

NextTokenizer == Extract

SpecTokenizer == InitTokenizer /\ [][NextTokenizer]_vars

\* the tokens of s: the longest runs without a separator, as <<first, last>>
TokenSpans(s) ==
    { <<i, j>> \in (1..Len(s)) \X (1..Len(s)) :
        /\ i <= j
        /\ \A k \in i..j : s[k] \notin Separators
        /\ i = 1 \/ s[i - 1] \in Separators
        /\ j = Len(s) \/ s[j + 1] \in Separators }

\* a token of three or more characters, not all digits, not in the vocabulary
Kept(t) ==
    /\ Len(t) >= 3
    /\ \E i \in 1..Len(t) : t[i] \notin {DigitChar[d] : d \in 1..10}
    /\ t \notin _NOISE

\* the meaningful tokens of the uppercased description, by where they start
KeptSpans(s) == {sp \in TokenSpans(s) : Kept(SubSeq(s, sp[1], sp[2]))}

\* the n-th of a set of spans, in order
NthSpan(spans, n) ==
    CHOOSE sp \in spans : Cardinality({o \in spans : o[1] < sp[1]}) = n - 1

\* C21: Tokenizer.  extract_description_patterns returns [] when the
\* uppercased description has no meaningful token, [t1] when it has one, and
\* [t1, t1 + " " + t2] otherwise, t1 and t2 being its first and second tokens
\* of length >= 3 that are not all digits and not in the noise vocabulary; so
\* it returns at most two patterns and the first is never a boilerplate word
\* or a state code.
C21_Tokenizer ==
    response.op = "extract" =>
        \A s \in {Upper(request.description)} :
        \A spans \in {KeptSpans(s)} :
            LET t(n) == SubSeq(s, NthSpan(spans, n)[1], NthSpan(spans, n)[2])
                patterns == response.patterns
            IN  /\ Len(patterns) <= 2
                /\ spans = {} => patterns = <<>>
                /\ Cardinality(spans) = 1 => patterns = <<t(1)>>
                /\ Cardinality(spans) >= 2 =>
                        patterns = <<t(1), t(1) \o <<" ">> \o t(2)>>
                /\ patterns /= <<>> => patterns[1] \notin _NOISE

\* the specification's example: boilerplate, number and state code are
\* passed over and STARBUCKS comes first
C21_Witness ==
    /\ response.op = "extract"
    /\ request.description = ExampleDescription
    /\ response.patterns = << <<"S", "T", "A", "R", "B", "U", "C", "K", "S">>, <<"S", "T", "A", "R", "B", "U", "C", "K", "S", " ", "S", "E", "A", "T", "T", "L", "E">> >>

-----------------------------------------------------------------------------
(* What the specification says of what a rebuild keeps and resets *)

\* the vendors of the account no Record is labelled with
WithoutHistory(account_id) ==
    {v \in VendorsOf(vendor_info, account_id) :
        \A id \in LabelledOf(transactions, account_id) :
            transactions[id].vendor /= vendor_info[v].vendor_name}

\* the payload table of every rebuild of the account, with the table its
\* per-vendor step leaves: <<after the first loop, after the second>>
Rebuilds(account_id) ==
    { <<RebuildEach(vendor_info, transactions, account_id, tx_order),
        rebuild_vendor_rules(DB, account_id, vendor_order, tx_order).vendor_info>> :
      vendor_order \in Orders(VendorsOf(vendor_info, account_id)),
      tx_order \in Orders(LabelledOf(transactions, account_id)) }

\* C22 as stated: a rebuild leaves the payload of every vendor without
\* labelled Records completely unchanged, its pattern list included, even when
\* another vendor holds one of its patterns.
C22_AsStated ==
    \A account_id \in RuleAccounts : \A rb \in Rebuilds(account_id) :
        \A v \in WithoutHistory(account_id) : rb[2][v] = vendor_info[v]

\* C22: the per-vendor step of a rebuild leaves the payload of every vendor
\* without labelled Records unchanged; after the whole rebuild the payload
\* differs at most in its pattern list, which has lost exactly the patterns
\* the ambiguity step gave to another vendor of the account, one that listed
\* the pattern with an assigned_count at least as high.
C22_UntouchedButContested ==
    \A account_id \in RuleAccounts : \A rb \in Rebuilds(account_id) :
        \A v \in WithoutHistory(account_id) :
            /\ rb[1][v] = vendor_info[v]
            /\ [rb[2][v] EXCEPT !.rules = <<>>] = [vendor_info[v] EXCEPT !.rules = <<>>]
            /\ DOMAIN rb[2][v].rules = DOMAIN vendor_info[v].rules
            /\ \A key \in DOMAIN vendor_info[v].rules \ {"patterns"} :
                  rb[2][v].rules[key] = vendor_info[v].rules[key]
            /\ Listed(rb[2], v) \subseteq Listed(vendor_info, v)
            /\ \A p \in Listed(vendor_info, v) :
                  p \notin Listed(rb[2], v) <=>
                      \E w \in VendorsOf(vendor_info, account_id) \ {v} :
                          /\ p \in Listed(rb[2], w)
                          /\ CountRead(rb[1], w) >= CountRead(rb[1], v)

\* a rebuild has taken ACME from the first vendor, which has no labelled
\* Record and is otherwise as it was, and left it with the second
C22_Witness ==
    /\ request.op = "rebuild"
    /\ 1 \in WithoutHistory(1)
    /\ vendor_info[1].rules = [AcmeRule EXCEPT !.patterns = <<>>]
    /\ PatAcme \in Listed(vendor_info, 2)

\* the Records of the account labelled with the vendor
LabelledWith(account_id, v) ==
    {id \in DOMAIN transactions :
        /\ transactions[id].account_id = account_id
        /\ transactions[id].vendor = vendor_info[v].vendor_name}

\* C23: for every vendor with a labelled Record a rebuild keeps
\* corrected_count as it was, 0 where there was no payload, and sets
\* assigned_count to the number of the account's Records now labelled with the
\* vendor, whatever approvals had added to it.
C23_RebuildCounts ==
    \A account_id \in RuleAccounts : \A rb \in Rebuilds(account_id) :
        \A v \in VendorsOf(vendor_info, account_id) \ WithoutHistory(account_id) :
            /\ rb[2][v].rules.corrected_count =
                  Get(vendor_info[v].rules, "corrected_count", 0)
            /\ rb[2][v].rules.assigned_count =
                  Cardinality(LabelledWith(account_id, v))

\* a rebuild has set the first vendor's assigned_count, which an approved
\* batch of two had raised to 4, to the one Record still labelled with it,
\* keeping its corrected_count of 1, and has rebuilt the second vendor's rule
\* from the other Record
C23_Witness ==
    /\ request.op = "rebuild"
    /\ \E k \in DOMAIN suggestions :
          /\ suggestions[k].status = "approved"
          /\ suggestions[k].vendor_info_id = 1
          /\ Len(suggestions[k].transaction_ids) = 2
    /\ Cardinality(LabelledWith(1, 1)) = 1
    /\ vendor_info[1].rules.assigned_count = 1
    /\ vendor_info[1].rules.corrected_count = 1
    /\ Cardinality(LabelledWith(1, 2)) = 1
    /\ vendor_info[2].rules.assigned_count = 1
    /\ vendor_info[2].rules.corrected_count = 0
    /\ vendor_info[2].rules.default_project = None_

-----------------------------------------------------------------------------
(* What the specification says of unknown identifiers *)

\* an account id no row of the accounts table has
UnknownAccounts == {3}

\* suggestion ids no batch has
UnknownSuggestions == {0, Len(suggestions) + 1}

\* the outcome reports not-found and commits the tables as they were
NotFound(out) ==
    /\ out.response.status = 404
    /\ out.transactions = transactions
    /\ out.vendor_info = vendor_info
    /\ out.suggestions = suggestions

\* C24: unknown identifiers are reported as not-found with no mutation:
\* approve and dismiss with an unknown suggestion id, and approve_all and
\* rebuild_rules with an unknown account, each answer not-found and change no
\* Record, rule or batch.
C24_UnknownIdsNotFound ==
    /\ \A suggestion_id \in UnknownSuggestions :
          /\ NotFound(approve_suggestion(DB, suggestion_id, NoBody))
          /\ NotFound(dismiss_suggestion(DB, suggestion_id))
    /\ \A account_id \in UnknownAccounts :
          /\ \A order \in Orders(AllPending(suggestions)) :
                NotFound(approve_all_suggestions(DB, account_id, order))
          /\ NotFound(rebuild_vendor_rules(DB, account_id, <<>>, <<>>))

-----------------------------------------------------------------------------
(* What the specification says of rows that do not parse *)

\* a row whose amount cell is no number
RowBadAmount ==
    [ date |-> "01/05/2024", amount |-> <<>>,
      description |-> <<"A", "c", "m", "e", " ", "G", "a", "s">> ]

\* the files the statement is tried on: every file of up to MaxRows rows
\* drawn from a purchase and the two kinds of bad row, and two files in which
\* a bad row stands between or before two equal purchases
ParseFiles ==
    UNION {[1..n -> {RowAcmeGas, RowBadDate, RowBadAmount}] : n \in 1..MaxRows}
    \cup { <<RowAcmeGas, RowBadDate, RowAcmeGas>>,
           <<RowBadAmount, RowAcmeGas, RowAcmeGas>> }

\* the file without its rows that do not parse
Parseable(content) == SelectSeq(content, RowParses)

-----------------------------------------------------------------------------
(* Two requests at a time.  Every request has a session of its own
   (get_db: SessionLocal()), no handler locks a row it reads, and the engine
   runs at the database's default isolation: a session sees what was
   committed when it reads, an UPDATE it issues locks the rows until it
   commits, and its commit writes the columns it changed.  Here request
   holds the two sessions and response their answers. *)

\* storage before the two requests: the first vendor's rule with one batch
\* approved (a refund, auto-categorized) and two batches pending, one Record
\* each
ConcurrentBase ==
    [ transactions |-> <<>>,
      vendor_info  |-> [v \in DOMAIN InitialVendors |->
                          [InitialVendors[v] EXCEPT !.rules = RulesOf(<<>>)[v]]],
      suggestions  |-> <<>> ]

ConcurrentStart ==
    LET s1 == After(import_csv_content(ConcurrentBase, <<RowAcmeRefund>>, 1, <<1, 2>>))
        s2 == After(approve_suggestion(s1, 1, NoBody))
        s3 == After(import_csv_content(s2, <<RowAcmeGas>>, 1, <<1, 2>>))
    IN  After(import_csv_content(s3, <<RowAcmeGas, RowAcmeGas>>, 1, <<1, 2>>))

\* the auto-categorized Record
RefundId == <<BaseOf(RowAcmeRefund), 0>>

\* the requests that meet
ConcurrentOps ==
    { [op |-> "approve", suggestion_id |-> 2],
      [op |-> "approve", suggestion_id |-> 3],
      [op |-> "dismiss", suggestion_id |-> 2],
      [op |-> "approve_all", account_id |-> 1],
      [op |-> "update_transaction", tx_id |-> RefundId,
       update_dict |-> [vendor |-> "Gas Co"]],
      [op |-> "rebuild", account_id |-> 1] }

Sessions == {1, 2}

\* a session that has not started: nothing read, no row locked
NewSession(call) == [call |-> call, pc |-> "start", seen |-> <<>>, locks |-> {}]

InitConcurrent ==
    /\ transactions = ConcurrentStart.transactions
    /\ vendor_info = ConcurrentStart.vendor_info
    /\ suggestions = ConcurrentStart.suggestions
    /\ request \in [Sessions -> {NewSession(call) : call \in ConcurrentOps}]
    /\ response = [i \in Sessions |-> [op |-> "none", status |-> 200]]

\* the handler run on what the session has read
Run(seen, call, order, vendor_order, tx_order) ==
    CASE call.op = "approve" -> approve_suggestion(seen, call.suggestion_id, NoBody)
      [] call.op = "dismiss" -> dismiss_suggestion(seen, call.suggestion_id)
      [] call.op = "approve_all" -> approve_all_suggestions(seen, call.account_id, order)
      [] call.op = "update_transaction" ->
             update_transaction(seen, call.tx_id, call.update_dict)
      [] call.op = "rebuild" ->
             rebuild_vendor_rules(seen, call.account_id, vendor_order, tx_order)

\* the Records the session's UPDATE of the transactions table touches
Touched(seen, call) ==
    LET batches == IF call.op = "approve" THEN {call.suggestion_id}
                   ELSE IF call.op = "approve_all"
                   THEN PendingOf(seen.suggestions, call.account_id)
                   ELSE {}
    IN  UNION { {seen.suggestions[k].transaction_ids[n] :
                    n \in 1..Len(seen.suggestions[k].transaction_ids)} : k \in batches }

\* the rows another session has locked
LockedByOthers(i) == UNION {request[j].locks : j \in Sessions \ {i}}

\* the first query of a handler.  approve and dismiss load the batch and
\* answer at once when it is missing or not pending; approve_all loads the
\* pending batches; the others load all they will use
Lookup(i) ==
    LET call == request[i].call
        out  == Run(DB, call, <<>>, <<>>, <<>>)
    IN  /\ request[i].pc = "start"
        /\ IF call.op \in {"approve", "dismiss"} /\ out.response.status /= 200
           THEN /\ request' = [request EXCEPT ![i].pc = "done"]
                /\ response' = [response EXCEPT ![i] = out.response]
           ELSE /\ request' = [request EXCEPT
                     ![i].pc = IF call.op \in {"approve", "approve_all"}
                               THEN "looked" ELSE "applied",
                     ![i].seen = DB]
                /\ UNCHANGED response
        /\ UNCHANGED <<transactions, vendor_info, suggestions>>

\* approve and approve_all: the UPDATE of the batches' Records, which waits
\* for rows another session has locked, and the query for the vendor
Apply(i) ==
    LET call == request[i].call
        ids  == Touched(request[i].seen, call)
    IN  /\ request[i].pc = "looked"
        /\ ids \cap LockedByOthers(i) = {}
        /\ request' = [request EXCEPT
              ![i].pc = "applied",
              ![i].locks = ids,
              ![i].seen = [ transactions |-> transactions,
                            vendor_info  |-> vendor_info,
                            suggestions  |-> request[i].seen.suggestions ]]
        /\ UNCHANGED <<transactions, vendor_info, suggestions, response>>

\* the columns the session changed, written over the committed row
MergeRow(committed, old, new) ==
    [f \in DOMAIN committed |-> IF new[f] /= old[f] THEN new[f] ELSE committed[f]]

MergeTable(committed, old, new) ==
    [k \in DOMAIN committed |->
        IF k \in DOMAIN old THEN MergeRow(committed[k], old[k], new[k])
        ELSE committed[k]]

\* db.commit(): the changes are flushed, which waits for locked rows, and
\* become visible together
CommitSession(i) ==
    LET call == request[i].call
        seen == request[i].seen
    IN  /\ request[i].pc = "applied"
        /\ call.op = "update_transaction" => call.tx_id \notin LockedByOthers(i)
        /\ \E order \in Orders(AllPending(seen.suggestions)),
              vendor_order \in Orders(VendorsOf(seen.vendor_info, 1)),
              tx_order \in Orders(LabelledOf(seen.transactions, 1)) :
              \E out \in {Run(seen, call, order, vendor_order, tx_order)} :
                /\ transactions' = MergeTable(transactions, seen.transactions,
                                              out.transactions)
                /\ vendor_info' = MergeTable(vendor_info, seen.vendor_info,
                                             out.vendor_info)
                /\ suggestions' = MergeTable(suggestions, seen.suggestions,
                                             out.suggestions)
                /\ response' = [response EXCEPT ![i] = out.response]
        /\ request' = [request EXCEPT ![i].pc = "done", ![i].locks = {}]

NextConcurrent == \E i \in Sessions : Lookup(i) \/ Apply(i) \/ CommitSession(i)

SpecConcurrent == InitConcurrent /\ [][NextConcurrent]_vars

-----------------------------------------------------------------------------
(* What the specification says of requests that meet *)

\* both requests have been answered
BothDone == \A i \in Sessions : request[i].pc = "done"

\* the size of a batch
BatchSize(k) == Len(ConcurrentStart.suggestions[k].transaction_ids)

\* assigned_count of the first vendor's rule before the two requests
AssignedBefore == ConcurrentStart.vendor_info[1].rules.assigned_count

\* corrected_count of the first vendor's rule before the two requests
CorrectedBefore == ConcurrentStart.vendor_info[1].rules.corrected_count

\* C26: No lost update on assigned_count.  When approvals of two different
\* pending batches of the same vendor rule run at the same time, the rule's
\* final assigned_count is its initial value plus the sizes of both batches.
C26_NoLostUpdate ==
    \A i, j \in Sessions :
        ( /\ BothDone
          /\ request[i].call.op = "approve"
          /\ request[j].call.op = "approve"
          /\ request[i].call.suggestion_id /= request[j].call.suggestion_id
          /\ response[i].status = 200
          /\ response[j].status = 200 )
        => vendor_info[1].rules.assigned_count =
              AssignedBefore + BatchSize(request[i].call.suggestion_id)
                             + BatchSize(request[j].call.suggestion_id)

\* C27: Rebuild is exclusive per account.  When a rebuild runs at the same
\* time as a manual correction on the account, the correction's committed
\* effect is not overwritten by what the rebuild had read: once both have
\* finished, the vendor's corrected_count is its prior value plus the
\* corrections made.
C27_RebuildExclusive ==
    \A i, j \in Sessions :
        ( /\ BothDone
          /\ request[i].call.op = "rebuild"
          /\ request[j].call.op = "update_transaction"
          /\ response[i].status = 200
          /\ response[j].status = 200 )
        => vendor_info[1].rules.corrected_count = CorrectedBefore + 1

\* the requests of the two sessions are for the same pending batch
SameBatch(i, j) ==
    /\ i /= j
    /\ request[i].call.op = "approve"
    /\ \/ request[j].call.op \in {"approve", "dismiss"}
             /\ request[j].call.suggestion_id = request[i].call.suggestion_id
       \/ request[j].call.op = "approve_all"

\* the batches the two requests are for, all pending before them
BatchesAskedFor(i, j) ==
    IF request[j].call.op = "approve_all" THEN {2, 3}
    ELSE {request[i].call.suggestion_id}

\* C30: Approval is applied at most once.  When two approve requests, or an
\* approve and a dismiss, or an approve and an approve_all, for the same
\* pending batch run at the same time, at most one of them takes effect on the
\* batch and the vendor's assigned_count grows by the batch size at most once.
C30_AppliedAtMostOnce ==
    \A i, j \in Sessions :
        (BothDone /\ SameBatch(i, j)) =>
            /\ request[j].call.op /= "approve_all" =>
                  ~(response[i].status = 200 /\ response[j].status = 200)
            /\ vendor_info[1].rules.assigned_count <=
                  AssignedBefore
                  + BatchSize(2) * (IF 2 \in BatchesAskedFor(i, j) THEN 1 ELSE 0)
                  + BatchSize(3) * (IF 3 \in BatchesAskedFor(i, j) THEN 1 ELSE 0)

-----------------------------------------------------------------------------
(* The suggestion of a batch and the sign of its Records *)

\* the batches an import added to the table
CreatedBy(out) == (Len(suggestions) + 1)..Len(out.suggestions)

\* what the rule of the batch's vendor implies for one Record of the batch
ImpliedFor(out, s, id, field, default_key) ==
    SuggestedField(out.vendor_info[s.vendor_info_id].rules,
                   out.transactions[id].amount, field, default_key)

\* C29: Sign-aware suggestions.  For every Record listed in a batch created by
\* an import, the batch's suggested category and project are the values the
\* vendor's rule implies for the sign of that Record's amount, also when the
\* import matched rows of both signs to the vendor.
C29_SignAwareSuggestions ==
    \A rq \in ImportRequests :
      \A order \in Orders(VendorsOf(vendor_info, rq[2])) :
        \A out \in {import_csv_content(DB, rq[1], rq[2], order)} :
          \A k \in CreatedBy(out) :
            \A j \in 1..Len(out.suggestions[k].transaction_ids) :
              LET s  == out.suggestions[k]
                  id == s.transaction_ids[j]
              IN  /\ s.suggested_category =
                        ImpliedFor(out, s, id, "category", "default_category")
                  /\ s.suggested_project =
                        ImpliedFor(out, s, id, "project", "default_project")

-----------------------------------------------------------------------------
(* The command-line ingester and the upload endpoint on one table *)

\* ingest.generate_base_hash
ingest_generate_base_hash(date_str, desc, amount) ==
    date_str \o desc \o FormatAmount(amount)

\* the Transaction(...) the ingester adds: the description as read, no account
IngestedTransaction(tx_id, date_cell, desc, amount) ==
    NewTransaction(tx_id, None_, date_cell, desc, amount)

\* the loop state of process_files for one file
EmptyIngest ==
    [ new_count |-> 0, skip_count |-> 0, file_hash_counts |-> <<>>, added |-> <<>> ]

\* one iteration of "for _, row in df.iterrows()" of the ingester: a row that
\* raises is passed over, the description is hashed as pandas read it
IngestRowStep(st, row, db) ==
    IF ~RowParses(row)
    THEN st
    ELSE
      LET desc             == row.description
          amount           == AmountOf(row.amount)
          base_hash        == ingest_generate_base_hash(DateStr(row.date), desc, amount)
          occurrence_index == CountOf(st.file_hash_counts, base_hash)
          counts1          == (base_hash :> (occurrence_index + 1)) @@ st.file_hash_counts
          tx_id            == TxId(base_hash, occurrence_index)
          st1              == [st EXCEPT !.file_hash_counts = counts1]
      IN  IF IdExists(db, tx_id)
          THEN [st1 EXCEPT !.skip_count = @ + 1]
          ELSE [st1 EXCEPT
                  !.added = Append(@, IngestedTransaction(tx_id, row.date, desc, amount)),
                  !.new_count = @ + 1]

RECURSIVE IngestRowLoop(_, _, _)
IngestRowLoop(st, rows, db) ==
    IF rows = <<>> THEN st
    ELSE IngestRowLoop(IngestRowStep(st, Head(rows), db), Tail(rows), db)

\* process_files for one file of the import directory.  The rows it adds
\* carry no account, and transactions.account_id is NOT NULL: the commit of
\* a file that added a row raises, is rolled back and reported as failed
process_files(db, content) ==
    LET st == IngestRowLoop(EmptyIngest, content, db.transactions)
    IN  IF \E k \in 1..Len(st.added) : st.added[k].account_id = None_
        THEN Outcome(db.transactions, db.vendor_info, db.suggestions,
                     [ op |-> "ingest", status |-> 500,
                       imported |-> 0, skipped |-> st.skip_count ])
        ELSE Outcome(InsertAll(db.transactions, st.added),
                     db.vendor_info,
                     db.suggestions,
                     [ op |-> "ingest", status |-> 200,
                       imported |-> st.new_count, skipped |-> st.skip_count ])

\* the statement files both entry points are given: a purchase, the same
\* purchase with a trailing blank in its description, a row that does not parse
EntryFiles ==
    UNION {[1..n -> {RowAcmeGas, RowAcmeGasAlt, RowBadDate}] : n \in 1..MaxRows}

Ingest ==
    \E content \in EntryFiles :
        Commit(process_files(DB, content), [op |-> "ingest", content |-> content])

Upload ==
    \E content \in EntryFiles :
        \E order \in Orders(VendorsOf(vendor_info, 1)) :
            Commit(import_csv_content(DB, content, 1, order),
                   [op |-> "import", content |-> content, account_id |-> 1])

NextEntryPoints == Ingest \/ Upload

SpecEntryPoints == Init /\ [][NextEntryPoints]_vars

\* the identities the two entry points compute for the rows of a file, in
\* row order, when nothing is stored yet
IngestIdentities(content) ==
    LET st == IngestRowLoop(EmptyIngest, content, <<>>)
    IN  [k \in 1..Len(st.added) |-> st.added[k].id]

UploadIdentities(content) ==
    LET st == RowLoop(EmptyLoop, content, <<>>, 1, <<>>)
    IN  [k \in 1..Len(st.added) |-> st.added[k].id]

\* C28: Identity bit-compatibility across entry points.  The ingester and
\* import_csv_content compute the same identity for every row of a file, so a
\* file taken in through one of them inserts nothing when it is taken in
\* through the other.
C28_SameIdentity ==
    \A content \in EntryFiles :
      /\ IngestIdentities(content) = UploadIdentities(content)
      /\ \A first \in {process_files(DB, content)} :
           first.response.status = 200 =>
             \A order \in Orders(VendorsOf(vendor_info, 1)) :
               import_csv_content(After(first), content, 1, order).response.imported = 0
      /\ \A order \in Orders(VendorsOf(vendor_info, 1)) :
           \A first \in {import_csv_content(DB, content, 1, order)} :
             IngestRowLoop(EmptyIngest, content, first.transactions).new_count = 0

-----------------------------------------------------------------------------
(* The mined patterns and the description they were mined from *)

\* the Matcher's test of one pattern against one description
MatchesOwn(description, pattern) ==
    PatternHits(Upper(description), pattern)

\* the first two meaningful tokens of s stand side by side, one blank between
SideBySide(s) ==
    LET spans == KeptSpans(s)
    IN  /\ Cardinality(spans) >= 2
        /\ NthSpan(spans, 2)[1] = NthSpan(spans, 1)[2] + 2
        /\ s[NthSpan(spans, 1)[2] + 1] = " "

-----------------------------------------------------------------------------
(* Deduplication and the account a file is imported into *)

\* the Records stored under one account
OwnedBy(txs, account_id) ==
    [id \in {i \in DOMAIN txs : txs[i].account_id = account_id} |-> txs[id]]

\* the table with every Record moved to one account
MovedTo(txs, account_id) ==
    [id \in DOMAIN txs |-> [txs[id] EXCEPT !.account_id = account_id]]

\* C34 as stated: Account isolation of dedup.  Whether a row is imported or
\* skipped when a file is imported into account B depends only on the Records
\* stored under B: the import counts what it would count if the Records of
\* the other accounts were not stored.
C34_AsStated ==
    \A rq \in ImportRequests :
      \A order \in Orders(VendorsOf(vendor_info, rq[2])) :
        \A out \in {import_csv_content(DB, rq[1], rq[2], order)} :
        \A alone \in {import_csv_content(
                        [DB EXCEPT !.transactions = OwnedBy(transactions, rq[2])],
                        rq[1], rq[2], order)} :
            /\ out.response.imported = alone.response.imported
            /\ out.response.skipped = alone.response.skipped

\* C34: dedup is by identity alone.  A parseable row is skipped exactly when
\* its identity is stored, under whichever account; the rows whose identity
\* is not stored are inserted under the account of the import; and the counts
\* are those the import would report if every stored Record belonged to that
\* account.
C34_DedupByIdentity ==
    \A rq \in ImportRequests :
      \A order \in Orders(VendorsOf(vendor_info, rq[2])) :
        \A out \in {import_csv_content(DB, rq[1], rq[2], order)} :
        \A moved \in {import_csv_content(
                        [DB EXCEPT !.transactions = MovedTo(transactions, rq[2])],
                        rq[1], rq[2], order)} :
            /\ DOMAIN out.transactions \ DOMAIN transactions
                  = {FinalIdentity(rq[1], i) : i \in NewRows(rq[1])}
            /\ \A id \in DOMAIN out.transactions \ DOMAIN transactions :
                  out.transactions[id].account_id = rq[2]
            /\ \A id \in DOMAIN transactions : out.transactions[id] = transactions[id]
            /\ out.response.imported = Cardinality(NewRows(rq[1]))
            /\ out.response.skipped = Len(rq[1]) - Cardinality(NewRows(rq[1]))
            /\ out.response.imported = moved.response.imported
            /\ out.response.skipped = moved.response.skipped

\* a one-row file has been imported into the second account and its row was
\* skipped because the first account holds a Record of that identity
C34_Witness ==
    /\ request.op = "import"
    /\ request.account_id = 2
    /\ RowParses(request.content[1])
    /\ response.imported = 0
    /\ response.skipped = 1
    /\ FinalIdentity(request.content, 1) \in DOMAIN transactions
    /\ transactions[FinalIdentity(request.content, 1)].account_id = 1

-----------------------------------------------------------------------------
(* The identities the batches list *)

\* the places <<batch, position>> at which an identity is listed
ListedAt(id) ==
    { <<k, j>> \in (DOMAIN suggestions) \X (1..(2 * MaxRows)) :
        j <= Len(suggestions[k].transaction_ids)
        /\ suggestions[k].transaction_ids[j] = id }

\* C35: in every state reached by imports, approvals and dismissals, each
\* Record identity is listed in at most one SuggestionBatch, of whatever
\* status, and every identity a batch lists is the identity of a stored
\* Record of the batch's account.
C35_BatchesListStoredRecordsOnce ==
    /\ \A id \in DOMAIN transactions : Cardinality(ListedAt(id)) <= 1
    /\ \A k \in DOMAIN suggestions :
         /\ Len(suggestions[k].transaction_ids) <= 2 * MaxRows
         /\ \A j \in 1..Len(suggestions[k].transaction_ids) :
              LET id == suggestions[k].transaction_ids[j]
              IN  /\ id \in DOMAIN transactions
                  /\ transactions[id].account_id = suggestions[k].account_id

\* batches of both accounts are stored, one of two Records, one approved and
\* one dismissed
C35_Witness ==
    /\ \E k \in DOMAIN suggestions : suggestions[k].account_id = 2
    /\ \E k \in DOMAIN suggestions :
         suggestions[k].account_id = 1 /\ Len(suggestions[k].transaction_ids) = 2
    /\ \E k \in DOMAIN suggestions : suggestions[k].status = "approved"
    /\ \E k \in DOMAIN suggestions : suggestions[k].status = "dismissed"

-----------------------------------------------------------------------------
(* import_csv_content commit by commit *)

\* the ImportSuggestion rows an import adds to its session after its first
\* commit
Staged(db, out) == SubSeq(out.suggestions, Len(db.suggestions) + 1, Len(out.suggestions))

\* no import is between its two commits
Ended == response.op /= "importing"

\* the imports of this specification: files with and without a matching row
TwoCommitRequests ==
    StatementImports \cup { <<<<RowAcmeRefund>>, 2>>, <<<<RowBadDate, RowAcmeGasAlt>>, 1>> }

\* the row loop and the first db.commit(): the Records are stored; an import
\* without a vendor group returns here
CommitRecords ==
    /\ Ended
    /\ \E rq \in TwoCommitRequests :
         \E order \in Orders(VendorsOf(vendor_info, rq[2])) :
           LET out == import_csv_content(DB, rq[1], rq[2], order)
           IN  /\ request' = [op |-> "import", content |-> rq[1], account_id |-> rq[2]]
               /\ transactions' = out.transactions
               /\ response' = IF Staged(DB, out) = <<>>
                              THEN out.response
                              ELSE [ op |-> "importing", status |-> 200,
                                     staged |-> Staged(DB, out),
                                     result |-> out.response ]
               /\ UNCHANGED <<vendor_info, suggestions>>

\* the loop over suggestions_map and the second db.commit()
CommitSuggestions ==
    /\ ~Ended
    /\ suggestions' = suggestions \o response.staged
    /\ response' = response.result
    /\ UNCHANGED <<transactions, vendor_info, request>>

\* the second part raises (the refresh of vi, the INSERT or the commit fails,
\* or the worker stops): the session is closed without its pending rows
FailBetweenCommits ==
    /\ ~Ended
    /\ response' = [op |-> "import", status |-> 500]
    /\ UNCHANGED <<transactions, vendor_info, suggestions, request>>

NextTwoCommits == CommitRecords \/ CommitSuggestions \/ FailBetweenCommits

SpecTwoCommits == Init /\ [][NextTwoCommits]_vars

\* the Record matches an eligible rule of its account
MatchesARule(tx) ==
    \E order \in Orders(VendorsOf(vendor_info, tx.account_id)) :
        find_matching_vendor(tx.description, AutoCandidates(vendor_info, order)) /= 0

\* C36: Records and their suggestions are persisted atomically.  In every
\* state after an import has ended, normally or by a failure between its two
\* commits, each stored Record that matched a vendor rule when it was
\* inserted is listed in a SuggestionBatch.
C36_PersistedTogether ==
    Ended =>
        \A id \in DOMAIN transactions :
            MatchesARule(transactions[id]) =>
                \E k \in DOMAIN suggestions : InSeq(id, suggestions[k].transaction_ids)

-----------------------------------------------------------------------------
(* POST /transactions/bulk-restore, and the edits of a Record over time *)

\* the snapshot of a Record the client keeps for undo (TransactionRestore)
Snapshot(tx) ==
    [id |-> tx.id, vendor |-> tx.vendor, category |-> tx.category, project |-> tx.project]

\* the last snapshot of the list for a Record: the loop assigns them in turn
LastSnapshot(snapshots, id) ==
    snapshots[CHOOSE k \in 1..Len(snapshots) :
                 /\ snapshots[k].id = id
                 /\ \A j \in (k + 1)..Len(snapshots) : snapshots[j].id /= id]

bulk_restore_transactions(db, snapshots) ==
    Outcome([id \in DOMAIN db.transactions |->
                IF \E k \in 1..Len(snapshots) : snapshots[k].id = id
                THEN LET snap == LastSnapshot(snapshots, id)
                     IN  [db.transactions[id] EXCEPT !.vendor   = snap.vendor,
                                                     !.category = snap.category,
                                                     !.project  = snap.project]
                ELSE db.transactions[id]],
            db.vendor_info, db.suggestions,
            [op |-> "bulk_restore", status |-> 200])

\* the snapshot lists a client sends: one Record, known or not, as it was
\* before it was labelled or as an approval of Acme's batch left it
SnapshotLists ==
    { << [id |-> id, vendor |-> l[1], category |-> l[2], project |-> None_] >> :
        id \in DOMAIN transactions \cup {UnknownTxId},
        l \in { <<None_, None_>>, <<"Acme", "Food">> } }

\* the vendor edits of single Records
SingleEdits == { [vendor |-> "Gas Co"], [vendor |-> "Acme"] }

\* the Records that have penalized a rule, kept with the request
Penalizers == request.penalized

\* the sum over the rules of corrected_count
RECURSIVE CorrectedSum(_, _)
CorrectedSum(vis, vs) ==
    IF vs = {} THEN 0
    ELSE LET v == CHOOSE x \in vs : TRUE
         IN  Get(vis[v].rules, "corrected_count", 0) + CorrectedSum(vis, vs \ {v})

CorrectedTotal(vis) == CorrectedSum(vis, DOMAIN vis)

InitUndo ==
    /\ transactions = <<>>
    /\ vendor_info \in { [v \in DOMAIN InitialVendors |->
                            [InitialVendors[v] EXCEPT !.rules = RulesOf(gas)[v]]] :
                         gas \in GasRuleChoices }
    /\ suggestions = <<>>
    /\ response = [op |-> "none", status |-> 200]
    /\ request = [op |-> "none", penalized |-> {}]

UndoImport ==
    \E rq \in StatementImports :
        \E order \in Orders(VendorsOf(vendor_info, rq[2])) :
            Commit(import_csv_content(DB, rq[1], rq[2], order),
                   [op |-> "import", penalized |-> Penalizers])

UndoApprove ==
    \E suggestion_id \in DOMAIN suggestions :
        Commit(approve_suggestion(DB, suggestion_id, NoBody),
               [op |-> "approve", penalized |-> Penalizers])

UndoEdit ==
    \E tx_id \in DOMAIN transactions, update_dict \in SingleEdits :
        LET out == update_transaction(DB, tx_id, update_dict)
        IN  Commit(out,
                   [op |-> "update_transaction", tx_id |-> tx_id,
                    penalized |-> IF CorrectedTotal(out.vendor_info)
                                        > CorrectedTotal(vendor_info)
                                  THEN Penalizers \cup {tx_id} ELSE Penalizers])

UndoBulkUpdate ==
    \E update_data \in BulkEdits :
        Commit(bulk_update_transactions(DB, DOMAIN transactions, update_data, 1),
               [op |-> "bulk_update", ids |-> DOMAIN transactions,
                penalized |-> Penalizers])

UndoRestore ==
    \E snapshots \in SnapshotLists :
        Commit(bulk_restore_transactions(DB, snapshots),
               [op |-> "bulk_restore", ids |-> {snapshots[k].id : k \in 1..Len(snapshots)},
                penalized |-> Penalizers])

NextUndo ==
    \/ UndoImport
    \/ UndoApprove
    \/ UndoEdit
    \/ UndoBulkUpdate
    \/ UndoRestore

SpecUndo == InitUndo /\ [][NextUndo]_vars

-----------------------------------------------------------------------------
(* What the edits of a Record do to the rules over time *)

\* the step is an edit of the Record: a single update, a bulk update or a
\* bulk restore naming it
EditsRecord(req, id) ==
    \/ req.op = "update_transaction" /\ req.tx_id = id
    \/ req.op \in {"bulk_update", "bulk_restore"} /\ id \in req.ids

CorrectedOf(vis, v) == Get(vis[v].rules, "corrected_count", 0)

\* C37: a Record penalizes a vendor rule at most once.  After a vendor edit
\* of an auto-categorized Record has incremented a rule's corrected_count, no
\* later edit of that Record (single update, bulk update, bulk restore)
\* increments the corrected_count of any rule.
C37_PenalizesOnce ==
    [][ \A id \in request.penalized :
          EditsRecord(request', id) =>
              \A v \in DOMAIN vendor_info :
                  CorrectedOf(vendor_info', v) = CorrectedOf(vendor_info, v) ]_vars

\* the only Record was approved for Acme, edited away from Acme, which cost
\* Acme's rule one correction, and has now been edited back to Acme
C37_Witness ==
    /\ request.op = "update_transaction"
    /\ request.tx_id \in request.penalized
    /\ Cardinality(DOMAIN transactions) = 1
    /\ transactions[request.tx_id].vendor = "Acme"
    /\ CorrectedOf(vendor_info, 1) = 1

\* the snapshots a client takes of the Records of a batch before approving it
SnapshotsOf(db, s) ==
    [j \in 1..Len(s.transaction_ids) |-> Snapshot(db.transactions[s.transaction_ids[j]])]

\* C38: Undo round-trip.  Approving a suggestion and then bulk-restoring the
\* pre-approval snapshots of its Records returns each of those Records to its
\* pre-approval state: vendor, category, project and auto_categorized = false.
C38_UndoRoundTrip ==
    \A k \in DOMAIN suggestions :
        suggestions[k].status = "pending" =>
            \A approved \in {approve_suggestion(DB, k, NoBody)} :
            \A restored \in {bulk_restore_transactions(After(approved),
                                                       SnapshotsOf(DB, suggestions[k]))} :
                \A j \in 1..Len(suggestions[k].transaction_ids) :
                    LET id == suggestions[k].transaction_ids[j]
                    IN  /\ restored.transactions[id].vendor = transactions[id].vendor
                        /\ restored.transactions[id].category = transactions[id].category
                        /\ restored.transactions[id].project = transactions[id].project
                        /\ restored.transactions[id].auto_categorized
                              = transactions[id].auto_categorized
                        /\ restored.transactions[id] = transactions[id]

-----------------------------------------------------------------------------
(* The feedback loop: a rule the corrections have switched off *)

\* the batches the step has added are for vendors other than v
NoBatchAddedFor(v) ==
    \A k \in (Len(suggestions) + 1)..Len(suggestions') :
        suggestions'[k].vendor_info_id /= v

\* C32: Feedback loop closes.  Once the corrections have brought a vendor's
\* confidence below 0.70 and the correction step has disabled its rule, the
\* rule stays disabled and no import creates a SuggestionBatch for the vendor,
\* through every later import, approval of an older pending batch, correction
\* and rebuild.
C32_FeedbackLoopCloses ==
    [][\A v \in DOMAIN vendor_info :
          Disabled(vendor_info, v) =>
              /\ Disabled(vendor_info', v)
              /\ NoBatchAddedFor(v)]_vars

\* Acme's rule was switched off by a correction; a later import has stored a
\* Record whose description holds Acme's pattern and has made no batch
C32_Witness ==
    /\ request.op = "import"
    /\ response.imported >= 1
    /\ response.suggestions_created = 0
    /\ Disabled(vendor_info, 1)
    /\ CorrectedOf(vendor_info, 1) >= 1
    /\ vendor_info[1].rules.confidence < _CONFIDENCE_ASSIGN_THRESHOLD
    /\ \A i \in DOMAIN request.content :
          RuleMatches(Upper(Strip(request.content[i].description)),
                      vendor_info[1].rules)

-----------------------------------------------------------------------------
(* Two imports at the same time: watcher threads, or watcher and upload *)

\* the files that arrive together: they share the purchase at Acme
ArrivingFiles ==
    { <<RowAcmeGas>>, <<RowAcmeGas, RowAcmeRefund>>, <<RowAcmeRefund, RowAcmeGas>>,
      <<RowAcmeGasAlt, RowBadDate>> }

\* an import that has not started: its own session, nothing added to it
NewImport(content) ==
    [content |-> content, account_id |-> 1, pc |-> "start", st |-> EmptyLoop]

InitArrivals ==
    /\ transactions = <<>>
    /\ vendor_info = ConcurrentBase.vendor_info
    /\ suggestions = <<>>
    /\ request \in [Sessions -> {NewImport(content) : content \in ArrivingFiles}]
    /\ response = [i \in Sessions |-> [op |-> "none", status |-> 200]]

\* the row loop: every existence test reads the committed table, the new
\* Records wait in the session
ReadRows(i) ==
    /\ request[i].pc = "start"
    /\ \E order \in Orders(VendorsOf(vendor_info, request[i].account_id)) :
         request' = [request EXCEPT
            ![i].pc = "read",
            ![i].st = RowLoop(EmptyLoop, request[i].content, transactions,
                              request[i].account_id,
                              AutoCandidates(vendor_info, order))]
    /\ UNCHANGED <<transactions, vendor_info, suggestions, response>>

\* a Record of the session has the primary key of a committed one
KeyTaken(i) ==
    \E k \in 1..Len(request[i].st.added) :
        request[i].st.added[k].id \in DOMAIN transactions

\* the first db.commit(): the INSERTs are flushed in one transaction; a taken
\* primary key raises IntegrityError, nothing of the session is stored and
\* the exception leaves import_csv_content
FlushRecords(i) ==
    LET st == request[i].st
    IN  /\ request[i].pc = "read"
        /\ IF KeyTaken(i)
           THEN /\ request' = [request EXCEPT ![i].pc = "done"]
                /\ response' = [response EXCEPT ![i] = [op |-> "import", status |-> 500]]
                /\ UNCHANGED transactions
           ELSE /\ transactions' = InsertAll(transactions, st.added)
                /\ IF st.suggestions_map = <<>>
                   THEN /\ request' = [request EXCEPT ![i].pc = "done"]
                        /\ response' = [response EXCEPT ![i] =
                              [ op |-> "import", status |-> 200,
                                imported |-> st.imported, skipped |-> st.skipped,
                                suggestions_created |-> 0 ]]
                   ELSE /\ request' = [request EXCEPT ![i].pc = "stored"]
                        /\ UNCHANGED response
        /\ UNCHANGED <<vendor_info, suggestions>>

\* the second db.commit(): the ImportSuggestion rows
StoreSuggestions(i) ==
    LET st == request[i].st
    IN  /\ request[i].pc = "stored"
        /\ suggestions' = suggestions \o
              [k \in 1..Len(st.suggestions_map) |->
                  NewSuggestion(request[i].account_id, st.suggestions_map[k])]
        /\ request' = [request EXCEPT ![i].pc = "done"]
        /\ response' = [response EXCEPT ![i] =
              [ op |-> "import", status |-> 200,
                imported |-> st.imported, skipped |-> st.skipped,
                suggestions_created |-> Len(st.suggestions_map) ]]
        /\ UNCHANGED <<transactions, vendor_info>>

NextArrivals ==
    \E i \in Sessions : ReadRows(i) \/ FlushRecords(i) \/ StoreSuggestions(i)

SpecArrivals == InitArrivals /\ [][NextArrivals]_vars

\* both imports have ended
BothEnded == \A i \in Sessions : request[i].pc = "done"

\* C31: Concurrent imports with overlapping rows.  When two imports whose
\* files share a row run concurrently, one Record per identity is stored, and
\* the import that loses the race counts the shared row as skipped and still
\* imports its other rows: neither import fails, each reports a count for
\* every row of its file, and every row that parses is stored when both have
\* ended.
C31_LoserSkipsSharedRow ==
    BothEnded =>
        \A i \in Sessions :
            /\ response[i].status = 200
            /\ response[i].imported + response[i].skipped = Len(request[i].content)
            /\ Identities(request[i].content) \subseteq DOMAIN transactions

-----------------------------------------------------------------------------
(* The inbox watcher: _wait_for_stable on one detected file *)

MaxSize == 8          \* the largest size, in blocks, the watched file grows to

\* the file as the file system holds it, and whether its writer is at work
NewFile(size, writing) == [op |-> "file", exists |-> TRUE, size |-> size, writing |-> writing]

\* the thread InboxHandler.on_created starts: prev_size = -1, nothing returned
InitStable ==
    /\ transactions = <<>>
    /\ vendor_info = InitialVendors
    /\ suggestions = <<>>
    /\ request \in {NewFile(0, TRUE), NewFile(0, FALSE), NewFile(1, TRUE), NewFile(1, FALSE)}
    /\ response = [op |-> "waiting", prev_size |-> -1, status |-> 200]

\* the writer appends to the file
Grow ==
    /\ request.exists /\ request.writing /\ request.size < MaxSize
    /\ request' = [request EXCEPT !.size = @ + 1]
    /\ UNCHANGED <<transactions, vendor_info, suggestions, response>>

\* the writer closes the file
FinishWriting ==
    /\ request.exists /\ request.writing
    /\ request' = [request EXCEPT !.writing = FALSE]
    /\ UNCHANGED <<transactions, vendor_info, suggestions, response>>

\* the file is removed
Delete ==
    /\ request.exists
    /\ request' = [request EXCEPT !.exists = FALSE, !.writing = FALSE]
    /\ UNCHANGED <<transactions, vendor_info, suggestions, response>>

\* the head of one turn of the "while True" loop of _wait_for_stable: stat,
\* compare, remember.  _handle_file goes on to _process_csv when it returns True
Poll ==
    /\ response.op = "waiting"
    /\ response' =
          IF ~request.exists
          THEN [op |-> "abandoned", prev_size |-> response.prev_size, status |-> 200]
          ELSE IF request.size = response.prev_size /\ request.size > 0
          THEN [op |-> "processing", prev_size |-> response.prev_size, status |-> 200]
          ELSE [op |-> "sleeping", prev_size |-> request.size, status |-> 200]
    /\ UNCHANGED <<transactions, vendor_info, suggestions, request>>

\* time.sleep(interval) ends and the loop goes round
Wake ==
    /\ response.op = "sleeping"
    /\ response' = [response EXCEPT !.op = "waiting"]
    /\ UNCHANGED <<transactions, vendor_info, suggestions, request>>

NextStable == Grow \/ FinishWriting \/ Delete \/ Poll \/ Wake

\* the polling thread keeps being scheduled
SpecStable == InitStable /\ [][NextStable]_vars /\ WF_vars(Poll) /\ WF_vars(Wake)

\* _wait_for_stable has returned
Returned == response.op \in {"abandoned", "processing"}

\* C39: _wait_for_stable terminates.  For every watched file whose size
\* eventually stops changing, or that is deleted, the call eventually returns,
\* True after two equal consecutive readings, False if the file is gone, so
\* that the file is imported or abandoned; also a file whose size stays 0.
C39_WaitTerminates == <>Returned

-----------------------------------------------------------------------------
(* The watcher's ImportLog under concurrent watcher threads *)

max_entries == 50

MaxAdds == 52          \* entries the first watcher thread adds
MaxOtherAdds == 2      \* entries the second watcher thread adds

\* the last n elements of a sequence, all of them when it is shorter
LastN(seq, n) ==
    IF n >= Len(seq) THEN seq ELSE SubSeq(seq, Len(seq) - n + 1, Len(seq))

Reversed(seq) == [k \in 1..Len(seq) |-> seq[Len(seq) - k + 1]]

\* a faulty variant: one entry more than the capacity is kept
Trimmed_OneMore(entries) ==
    IF Len(entries) > max_entries THEN LastN(entries, max_entries + 1) ELSE entries

\* if len(self._entries) > self._max: self._entries = self._entries[-self._max:]
Trimmed(entries) ==
    IF Len(entries) > max_entries THEN LastN(entries, max_entries) ELSE entries

\* list(reversed(self._entries[-n:])); the slice [-0:] is the whole list
recent(entries, n) ==
    IF n = 0 THEN Reversed(entries) ELSE Reversed(LastN(entries, n))

\* the limits get_status and get_log ask for
RecentArgs == {0, 1, 5, 60}

\* the entries each thread may still add
AddsOf(t) == IF t = 1 THEN MaxAdds ELSE MaxOtherAdds

\* import_log = ImportLog(): no entry, the lock free (0), no thread in add;
\* history keeps every entry ever added
InitImportLog ==
    /\ transactions = <<>>
    /\ vendor_info = InitialVendors
    /\ suggestions = <<>>
    /\ request = [ op |-> "log", entries |-> <<>>, lock |-> 0,
                   pc |-> [t \in Sessions |-> "idle"],
                   added |-> [t \in Sessions |-> 0],
                   history |-> <<>> ]
    /\ response = [op |-> "none", status |-> 200]

\* add: "with self._lock"; the call answers None
AddAcquire(t) ==
    /\ request.pc[t] = "idle"
    /\ request.lock = 0
    /\ request.added[t] < AddsOf(t)
    /\ request' = [request EXCEPT !.lock = t, !.pc[t] = "append"]
    /\ response' = [op |-> "add", status |-> 200]
    /\ UNCHANGED <<transactions, vendor_info, suggestions>>

\* add: self._entries.append(entry)
AddAppend(t) ==
    LET entry == [thread |-> t, n |-> request.added[t] + 1]
    IN  /\ request.pc[t] = "append"
        /\ request' = [request EXCEPT !.entries = Append(@, entry),
                                      !.history = Append(@, entry),
                                      !.added[t] = @ + 1,
                                      !.pc[t] = "trim"]
        /\ UNCHANGED <<transactions, vendor_info, suggestions, response>>

\* add: the trim, and the end of the with block
AddTrim(t) ==
    /\ request.pc[t] = "trim"
    /\ request' = [request EXCEPT !.entries = Trimmed(@), !.lock = 0, !.pc[t] = "idle"]
    /\ UNCHANGED <<transactions, vendor_info, suggestions, response>>

\* recent(n), which takes the lock for its one statement
Recent ==
    /\ request.lock = 0
    /\ \E n \in RecentArgs :
         response' = [op |-> "recent", status |-> 200, n |-> n,
                      entries |-> recent(request.entries, n)]
    /\ UNCHANGED <<transactions, vendor_info, suggestions, request>>

NextImportLog ==
    \/ \E t \in Sessions : AddAcquire(t) \/ AddAppend(t) \/ AddTrim(t)
    \/ Recent

SpecImportLog == InitImportLog /\ [][NextImportLog]_vars

\* C40: ImportLog is a bounded log.  Under any interleaving of add calls from
\* concurrent watcher threads, whoever holds the lock or finds it free sees at
\* most max_entries (50) entries once an add has ended; the log is the newest
\* max_entries of all entries ever added, in the order they were added; and
\* recent(n) for n >= 1 returns at most n entries, the newest first.
C40_BoundedLog ==
    /\ request.lock = 0 =>
          /\ Len(request.entries) <= max_entries
          /\ request.entries = LastN(request.history, max_entries)
          /\ \A n \in RecentArgs \ {0} :
                \A r \in {recent(request.entries, n)} :
                    /\ Len(r) <= n
                    /\ Len(r) = IF n <= Len(request.entries) THEN n
                                ELSE Len(request.entries)
                    /\ \A k \in 1..Len(r) :
                          r[k] = request.history[Len(request.history) - k + 1]
    /\ Len(request.entries) <= max_entries + 1
    /\ (response.op = "recent" /\ response.n >= 1) => Len(response.entries) <= response.n

\* more than max_entries entries were added by the two threads in turn, the
\* log holds the newest 50 of them, entries of both threads among them, and
\* recent(5) has returned five
C40_Witness ==
    /\ request.lock = 0
    /\ Len(request.history) > max_entries
    /\ Len(request.entries) = max_entries
    /\ \E k \in 1..Len(request.entries) : request.entries[k].thread = 2
    /\ request.history[1].thread = 2
    /\ response.op = "recent"
    /\ response.n = 5
    /\ Len(response.entries) = 5
    /\ response.entries[1] = request.history[Len(request.history)]

====
